---------------------------- MODULE Spec2Model ----------------------------
(***************************************************************************)
(* Vector index store of flask-app/app.py: the in-memory FAISS index and   *)
(* its ordinal -> item_id mapping held by every gunicorn worker process,   *)
(* the snapshot files they share, and the handlers that register, delete,  *)
(* reconcile, search and persist.                                          *)
(*                                                                         *)
(* A vector is identified by the item whose text was embedded (0 for a     *)
(* request whose item_id is not an integer literal).  A dict is a set of   *)
(* <<key, value>> pairs with distinct keys.                                *)
(***************************************************************************)
EXTENDS Integers, Sequences, FiniteSets, TLC

\* ------------------------------------------------------------------ bounds
MaxVectors == 2
MaxItemId == 2
MaxBatchItems == 2
MaxTopK == 2
MaxSimilarity == 10

\* --------------------------------------------------------------- constants
save_batch_size == 10
max_retries == 10
MIN_RESULTS_TO_RETURN == 3
SIMILARITY_THRESHOLD == 3
IndexHeaderBytes == 1

Procs == {1, 2}
ItemIds == 1..MaxItemId
IndexTypes == {"HNSW", "Flat"}

\* ----------------------------------------------------------- form values
\* request.form.get('item_id') is a string: a sequence of characters here.
DigitValue ==
    ("0" :> 0) @@ ("1" :> 1) @@ ("2" :> 2) @@ ("3" :> 3) @@ ("4" :> 4) @@
    ("5" :> 5) @@ ("6" :> 6) @@ ("7" :> 7) @@ ("8" :> 8) @@ ("9" :> 9)

DigitChar(n) == CHOOSE c \in DOMAIN DigitValue : DigitValue[c] = n

FormItemIds == {<<>>, <<"x">>} \cup {<<DigitChar(n)>> : n \in ItemIds}

\* int(item_id): raises ValueError unless every character is a digit.
IsIntLiteral(s) == Len(s) > 0 /\ \A i \in 1..Len(s) : s[i] \in DOMAIN DigitValue

RECURSIVE IntValue(_)
IntValue(s) ==
    IF s = <<>> THEN 0
    ELSE IntValue(SubSeq(s, 1, Len(s) - 1)) * 10 + DigitValue[s[Len(s)]]

\* ------------------------------------------------------------ dict helpers
Keys(m) == {e[1] : e \in m}
Values(m) == {e[2] : e \in m}
Get(m, k) == (CHOOSE e \in m : e[1] = k)[2]
Put(m, k, v) == {e \in m : e[1] # k} \cup {<<k, v>>}
Del(m, k) == {e \in m : e[1] # k}

RECURSIVE SortedItems(_)
SortedItems(m) ==
    IF m = {} THEN <<>>
    ELSE LET e == CHOOSE x \in m : \A y \in m : x[1] <= y[1]
         IN <<e>> \o SortedItems(m \ {e})

\* ---------------------------------------------------------------- index
NoIndex == [kind |-> "None", vecs |-> <<>>]
NewIndex(kind) == [kind |-> kind, vecs |-> <<>>]
ntotal(ix) == Len(ix.vecs)
IndexAdd(ix, v) == [ix EXCEPT !.vecs = Append(ix.vecs, v)]

RECURSIVE Compact(_, _, _)
\* IndexFlat.remove_ids: the vectors that are kept move down, in order.
Compact(vecs, ids, i) ==
    IF i > Len(vecs) THEN <<>>
    ELSE (IF (i - 1) \in ids THEN <<>> ELSE <<vecs[i]>>) \o Compact(vecs, ids, i + 1)

\* faiss_index.remove_ids(ids): IndexFlatIP compacts, IndexHNSWFlat raises.
RemoveIdsRaises(ix) == ix.kind # "Flat"
RemoveIds(ix, ids) == [ix EXCEPT !.vecs = Compact(ix.vecs, ids, 1)]

\* ---------------------------------------------------------------- files
NoIndexFile == [size |-> -1, kind |-> "None", vecs |-> <<>>]
ZeroIndexFile == [size |-> 0, kind |-> "None", vecs |-> <<>>]
NoMappingFile == [size |-> -1, items |-> <<>>]
Exists(f) == f.size >= 0

\* faiss.write_index / faiss.read_index
WriteIndex(ix) ==
    [size |-> IndexHeaderBytes + Len(ix.vecs), kind |-> ix.kind, vecs |-> ix.vecs]
ReadIndex(f) == [kind |-> f.kind, vecs |-> f.vecs]

\* pickle.dump / pickle.load of id_mapping
PickleDump(m) == [size |-> 1 + Cardinality(m), items |-> SortedItems(m)]
PickleLoad(f) == {f.items[i] : i \in 1..Len(f.items)}

NoDisk ==
    [idx |-> NoIndexFile, map |-> NoMappingFile,
     idx_tmp |-> NoIndexFile, map_tmp |-> NoMappingFile,
     idx_backup |-> NoIndexFile]

VARIABLES
    index_type,          \* FAISS_INDEX_TYPE of the deployment
    workers,             \* the worker processes gunicorn runs
    env_faults,          \* what may go wrong: the "disk" (space runs low, an
                         \* archive operation fails), a "rename" of save_faiss,
                         \* the worker ("crash"), the "client" (malformed
                         \* requests), text fields left out or "blank";
                         \* "threads" when the process serves requests in
                         \* threads
    faiss_index,         \* per process
    id_mapping,          \* per process
    pending_save_count,  \* per process: _pending_save_count
    disk,                \* the files of FAISS_STORAGE_DIR that are read back
    flock,               \* holder of .faiss_lock (0: free)
    pc,                  \* per process: position in the current handler
    req,                 \* per process: the current request and its locals
    resp,                \* per process: what the last handler returned
    found,               \* per process: what initialize_faiss met and archived
    snap,                \* the save_faiss under way or just over
    gone,                \* per process: ids deleted and not registered since
    assigned,            \* per process: ordinals handed out in the live index
    dirty,               \* per process: mutations not yet saved
    live,                \* ids registered by some process and not deleted
    unsaved,             \* per process: successful create_embedding calls that
                         \* no save_faiss() has gone through after (it stops
                         \* counting at save_batch_size)
    item_metadata,       \* the rows Spring holds for the items, by item_id
    pipeline,            \* one run of query understanding, gating, reranking
    faiss_lock,          \* per process: _faiss_lock (1: held by the request
                         \* thread that registers)
    search_thread,       \* per process: a second request thread, which the
                         \* development server starts for a text search
    search_call,         \* one faiss_index.search call of a search handler:
                         \* its top_k, the index count, k and efSearch
    locking,             \* the request threads of two processes as far as
                         \* .faiss_lock and _faiss_lock go: the lock
                         \* operations each has left, the locks it holds
    embedding_cache,     \* _embedding_cache: its entries in insertion order,
                         \* and how many stores it has seen
    embed_call           \* per thread: its call of create_embedding_vector or
                         \* create_embedding_vectors_batch, and what it got

\* The variables that follow one call or one thread on its own.
call_vars == <<search_call, locking, embedding_cache, embed_call>>

\* The variables of the vector store.
store_rest ==
    <<index_type, workers, env_faults, faiss_index, id_mapping,
      pending_save_count, disk, flock, pc, req, resp, found, snap, gone,
      assigned, dirty, live, unsaved, faiss_lock, search_thread>>

store_vars == <<store_rest, call_vars>>

vars == <<store_vars, item_metadata, pipeline>>

\* ------------------------------------------------------- requests, responses
\* before: the store as a register call met it (kept where Traced).
NoBefore ==
    [ntotal |-> 0, mapping |-> {}, pair |-> <<NoIndexFile, NoMappingFile>>]

NoReq ==
    [name |-> "none", form_id |-> <<>>, item_id |-> 0, items |-> <<>>,
     results |-> <<>>, faiss_idx |-> -1, deleted_count |-> 0,
     orphaned |-> {}, temp_index_size |-> 0, reused |-> FALSE,
     before |-> NoBefore, total |-> 0, retry |-> 0,
     faiss_indices_to_delete |-> {}, db_item_ids |-> {}, parts |-> <<>>]

\* note: "present" when a delete met its id in the mapping, "again" when the
\* id had been deleted in this process and not registered since; reused: an
\* add of the request took an ordinal that had been handed out before; saved:
\* the handler's save_faiss() call went through.
NoResp ==
    [op |-> "none", status |-> 0, item_id |-> 0, faiss_idx |-> -1,
     deleted_count |-> 0, item_ids |-> <<>>, scores |-> <<>>, top_k |-> 0,
     query |-> <<>>, results |-> <<>>, note |-> "",
     reused |-> FALSE, saved |-> FALSE,
     db_item_ids |-> {}, orphaned_items |-> {}]

\* The second request thread: idle, or holding the hits of
\* faiss_index.search that it has not yet looked up in id_mapping.
NoSearch == [pc |-> "idle", top_k |-> 0, score |-> <<>>, hits |-> <<>>, item_ids |-> <<>>]

\* The request threads whose locks are followed: those of process 1 and one
\* of process 2.
MaxThreads == 2
LockThreads == {<<1, n>> : n \in 1..MaxThreads} \cup {<<2, 1>>}

\* Every thread between requests, holding nothing.
NoLocking ==
    [op |-> [t \in LockThreads |-> "none"],
     rest |-> [t \in LockThreads |-> <<>>],
     held |-> [t \in LockThreads |-> <<>>]]

\* The threads whose embedding calls are followed.
MaxEmbedThreads == 2
EmbedThreads == 1..MaxEmbedThreads

\* _embedding_cache = {}
NoCache == [entries |-> <<>>, inserts |-> 0]

\* A thread that has called nothing yet.
NoEmbedCall ==
    [op |-> "none", stage |-> "idle", texts |-> <<>>, use_cache |-> FALSE,
     idx |-> 0, uncached_texts |-> <<>>, uncached_indices |-> <<>>,
     cached_embeddings |-> {}, result |-> <<>>, raised |-> FALSE,
     hit |-> FALSE]

\* No search call is followed.
NoSearchCall == [stage |-> "none", path |-> "none", top_k |-> 0, ntotal |-> 0, k |-> 0, efSearch |-> 0]

NoFound ==
    [idx |-> FALSE, map |-> FALSE, zero |-> FALSE, mismatch |-> FALSE,
     idx_archived |-> FALSE, map_archived |-> FALSE]

NoSnap ==
    [valid |-> FALSE, done |-> FALSE,
     prev |-> <<NoIndexFile, NoMappingFile>>, index |-> NoIndex, mapping |-> {}]

ActivePair(d) == <<d.idx, d.map>>

\* The positions of save_faiss at which the file lock is held.
SavePcs == {"save_backup", "save_move_index", "save_move_mapping", "save_verify"}

\* What the environment may do to a rename or a delete of a file.
MoveOutcomes == IF "disk" \in env_faults THEN {"moved", "removed", "kept"} ELSE {"moved"}
\* Whether a shutil.move of save_faiss goes through.
MoveDone == IF "rename" \in env_faults THEN BOOLEAN ELSE {TRUE}
DiskLow == IF "disk" \in env_faults THEN BOOLEAN ELSE {FALSE}

\* The ghosts live and dirty are kept where several workers share the files;
\* gone, assigned and the full responses for the worker that stays up alone.
Shared == Cardinality(workers) > 1
Traced == ~Shared /\ "crash" \notin env_faults
\* unsaved is kept for the worker that stays up alone and is sent well-formed
\* requests.
Counted == Traced /\ "client" \notin env_faults

\* The item_id values that requests carry.
SentItemIds ==
    IF "client" \in env_faults THEN FormItemIds
    ELSE {f \in FormItemIds : IsIntLiteral(f)}

\* The store as worker p's handler meets it.
StoreBefore(p) ==
    IF Traced
    THEN [ntotal |-> ntotal(faiss_index[p]), mapping |-> id_mapping[p],
          pair |-> ActivePair(disk)]
    ELSE NoBefore

\* ------------------------------------------------------------------- load
_try_load_faiss_file(d) ==
    IF ~Exists(d.idx) \/ ~Exists(d.map) THEN
        [ok |-> FALSE, index |-> NoIndex, mapping |-> {}]
    ELSE IF d.idx.size = 0 THEN
        [ok |-> FALSE, index |-> NoIndex, mapping |-> {}]
    ELSE IF d.map.size = 0 THEN
        [ok |-> FALSE, index |-> NoIndex, mapping |-> {}]
    ELSE IF ntotal(ReadIndex(d.idx)) # Cardinality(PickleLoad(d.map)) THEN
        [ok |-> FALSE, index |-> NoIndex, mapping |-> {}]
    ELSE
        [ok |-> TRUE, index |-> ReadIndex(d.idx), mapping |-> PickleLoad(d.map)]

\* shutil.move(path, path.corrupted_<timestamp>); on failure os.remove(path),
\* whose own failure is swallowed.  Nothing reads an archived file again: the
\* model keeps whether the rename happened (found), not the archive.
ArchiveIndex(d, outcome) ==
    IF Exists(d.idx) /\ outcome \in {"moved", "removed"}
    THEN [d EXCEPT !.idx = NoIndexFile] ELSE d

ArchiveMapping(d, outcome) ==
    IF Exists(d.map) /\ outcome \in {"moved", "removed"}
    THEN [d EXCEPT !.map = NoMappingFile] ELSE d

Ordinals(ix) == 0..(ntotal(ix) - 1)

Min(a, b) == IF a <= b THEN a ELSE b

\* The vectors held by the running workers together; requests that add are
\* taken while they fit in MaxVectors.
RECURSIVE VectorsHeld(_)
VectorsHeld(ps) ==
    IF ps = {} THEN 0
    ELSE LET p == CHOOSE x \in ps : TRUE
         IN ntotal(faiss_index[p]) + VectorsHeld(ps \ {p})

\* The body of initialize_faiss() under the file lock: load or start empty.
LoadOrStartEmpty(p) ==
    /\ LET r == _try_load_faiss_file(disk)
           met == [NoFound EXCEPT
                     !.idx = Exists(disk.idx), !.map = Exists(disk.map),
                     !.zero = disk.idx.size = 0,
                     !.mismatch = /\ disk.idx.size > 0 /\ disk.map.size > 0
                                  /\ ntotal(ReadIndex(disk.idx))
                                        # Cardinality(PickleLoad(disk.map))]
       IN
       /\ IF r.ok THEN
             /\ faiss_index' = [faiss_index EXCEPT ![p] = r.index]
             /\ id_mapping' = [id_mapping EXCEPT ![p] = r.mapping]
             /\ assigned' = [assigned EXCEPT ![p] = Ordinals(r.index)]
             /\ disk' = disk
             /\ found' = [found EXCEPT ![p] = met]
          ELSE
             /\ faiss_index' = [faiss_index EXCEPT ![p] = NewIndex(index_type)]
             /\ id_mapping' = [id_mapping EXCEPT ![p] = {}]
             /\ assigned' = [assigned EXCEPT ![p] = {}]
             /\ \E oi \in MoveOutcomes, om \in MoveOutcomes :
                   /\ disk' = ArchiveMapping(ArchiveIndex(disk, oi), om)
                   /\ found' = [found EXCEPT ![p] =
                         [met EXCEPT !.idx_archived = met.idx /\ oi = "moved",
                                     !.map_archived = met.map /\ om = "moved"]]
       /\ resp' = [resp EXCEPT ![p] =
              [NoResp EXCEPT !.op = "init", !.status = 200,
                             !.note = IF r.ok THEN "loaded" ELSE "empty"]]
    /\ pending_save_count' = [pending_save_count EXCEPT ![p] = 0]
    /\ pc' = [pc EXCEPT ![p] = "idle"]
    /\ req' = [req EXCEPT ![p] = [NoReq EXCEPT !.retry = req[p].retry]]
    /\ gone' = [gone EXCEPT ![p] = {}]
    /\ dirty' = [dirty EXCEPT ![p] = FALSE]
    /\ unsaved' = [unsaved EXCEPT ![p] = 0]
    /\ UNCHANGED <<call_vars, item_metadata, pipeline, faiss_lock, search_thread, index_type, workers, env_faults, snap, live>>

\* Module import in a worker: initialize_faiss(), whose first non-blocking
\* flock goes through.
initialize_faiss(p) ==
    /\ pc[p] = "down"
    /\ flock = 0
    /\ LoadOrStartEmpty(p)
    /\ UNCHANGED flock

\* A blocking flock that is never granted.
BlockingAcquirable_never(p) == FALSE

\* The blocking fcntl.flock(LOCK_EX) returns once nobody holds the lock.
BlockingAcquirable(p) == flock = 0

\* One turn of the retry loop of initialize_faiss(): flock with LOCK_NB takes
\* the lock, or fails; after max_retries failures the worker blocks.
init_try_lock(p) ==
    /\ pc[p] = "down"
    /\ IF flock = 0 THEN
          /\ flock' = p
          /\ pc' = [pc EXCEPT ![p] = "init_locked"]
          /\ UNCHANGED req
       ELSE
          /\ req' = [req EXCEPT ![p].retry = @ + 1]
          /\ pc' = [pc EXCEPT ![p] =
                IF req[p].retry + 1 >= max_retries THEN "init_blocked" ELSE "down"]
          /\ UNCHANGED flock
    /\ UNCHANGED <<call_vars, item_metadata, pipeline, faiss_lock, search_thread, index_type, workers, env_faults, unsaved, faiss_index,
                   id_mapping, pending_save_count, disk, resp, found, snap,
                   gone, assigned, dirty, live>>

\* fcntl.flock(lock_file.fileno(), fcntl.LOCK_EX) after the last retry.
init_block_lock(p) ==
    /\ pc[p] = "init_blocked"
    /\ BlockingAcquirable(p)
    /\ flock' = p
    /\ pc' = [pc EXCEPT ![p] = "init_locked"]
    /\ UNCHANGED <<call_vars, item_metadata, pipeline, faiss_lock, search_thread, index_type, workers, env_faults, unsaved, faiss_index,
                   id_mapping, pending_save_count, disk, req, resp, found,
                   snap, gone, assigned, dirty, live>>

\* initialize_faiss() with the lock in hand: the load, then LOCK_UN.
init_load(p) ==
    /\ pc[p] = "init_locked"
    /\ flock = p
    /\ LoadOrStartEmpty(p)
    /\ flock' = 0

\* A temporary file that a dead worker leaves behind is never read: the next
\* save_faiss writes over it.  The model keeps that it is there, not what it
\* holds.
Stale(d) ==
    [d EXCEPT !.idx_tmp = IF Exists(@) THEN ZeroIndexFile ELSE @,
              !.map_tmp = IF Exists(@) THEN [size |-> 0, items |-> <<>>] ELSE @]

\* The worker process dies (or gunicorn recycles it): its memory is gone and
\* the kernel drops its flock.
Crash(p) ==
    /\ "crash" \in env_faults
    /\ pc[p] # "down"
    /\ faiss_index' = [faiss_index EXCEPT ![p] = NoIndex]
    /\ id_mapping' = [id_mapping EXCEPT ![p] = {}]
    /\ pending_save_count' = [pending_save_count EXCEPT ![p] = 0]
    /\ flock' = IF flock = p THEN 0 ELSE flock
    /\ resp' = [resp EXCEPT ![p] = [NoResp EXCEPT !.op = "crash"]]
    /\ pc' = [pc EXCEPT ![p] = "down"]
    /\ req' = [req EXCEPT ![p] = NoReq]
    /\ found' = [found EXCEPT ![p] = NoFound]
    /\ gone' = [gone EXCEPT ![p] = {}]
    /\ assigned' = [assigned EXCEPT ![p] = {}]
    /\ dirty' = [dirty EXCEPT ![p] = FALSE]
    \* The snapshot ghost outlives the crash of a worker that is saving, or
    \* that has saved and done nothing since.
    /\ snap' = IF \/ pc[p] \in SavePcs
                  \/ pc[p] = "idle" /\ snap.done /\ resp[p].saved
               THEN snap ELSE NoSnap
    /\ disk' = Stale(disk)
    /\ unsaved' = [unsaved EXCEPT ![p] = 0]
    /\ UNCHANGED <<call_vars, item_metadata, pipeline, faiss_lock, search_thread, index_type, workers, env_faults, live>>

\* The index snapshot file is cut to zero bytes behind the program's back.
TruncateIndexFile ==
    /\ "crash" \in env_faults
    /\ flock = 0
    /\ disk.idx.size > 0
    /\ disk' = [disk EXCEPT !.idx = ZeroIndexFile]
    /\ snap' = NoSnap
    /\ UNCHANGED <<call_vars, item_metadata, pipeline, faiss_lock, search_thread, index_type, workers, env_faults, unsaved, faiss_index, id_mapping,
                   pending_save_count, flock, pc, req, resp, found, gone,
                   assigned, dirty, live>>

\* --------------------------------------------------------------- responses
\* A handler starts: what the last one left behind is no longer looked at.
Begin(p, q, at) ==
    /\ req' = [req EXCEPT ![p] = q]
    /\ pc' = [pc EXCEPT ![p] = at]
    /\ resp' = [resp EXCEPT ![p] = NoResp]
    /\ found' = [found EXCEPT ![p] = NoFound]
    /\ snap' = NoSnap

\* The handler of req[p] returns: jsonify(...) with its status code.
Respond(p, r) ==
    /\ resp' = [resp EXCEPT ![p] =
          IF Shared THEN [NoResp EXCEPT !.op = r.op, !.status = r.status,
                                        !.item_ids = r.item_ids]
          ELSE r]
    /\ pc' = [pc EXCEPT ![p] = "idle"]
    /\ req' = [req EXCEPT ![p] = NoReq]
    /\ found' = [found EXCEPT ![p] = NoFound]

\* What each handler returns once its save_faiss() call is over (or was not
\* needed); `raised` is an exception that reached the handler's except clause.
HandlerResponse(q, raised, saved) ==
    LET base == [NoResp EXCEPT !.op = q.name, !.item_id = q.item_id,
                               !.reused = q.reused, !.saved = saved,
                               !.note = IF q.name = "delete" THEN "present" ELSE ""]
    IN IF raised THEN [base EXCEPT !.status = 500]
       ELSE IF q.name = "create" THEN
           [base EXCEPT !.status = 200, !.item_id = IntValue(q.form_id),
                        !.faiss_idx = q.faiss_idx]
       ELSE IF q.name = "batch" THEN
           [base EXCEPT !.status = 200, !.results = q.results]
       ELSE IF q.name = "sync" THEN
           [base EXCEPT !.status = 200, !.deleted_count = q.deleted_count,
                        !.db_item_ids = q.db_item_ids,
                        !.orphaned_items = IF Counted THEN q.orphaned ELSE {}]
       ELSE
           [base EXCEPT !.status = 200, !.deleted_count = q.deleted_count]


\* ---------------------------------------------------------------- register
RECURSIVE lstrip(_)
lstrip(t) == IF t # <<>> /\ Head(t) = " " THEN lstrip(Tail(t)) ELSE t

RECURSIVE rstrip(_)
rstrip(t) ==
    IF t # <<>> /\ t[Len(t)] = " " THEN rstrip(SubSeq(t, 1, Len(t) - 1)) ELSE t

\* str.strip().
strip(t) == rstrip(lstrip(t))

\* A text that is not sent, and one of spaces only.
BlankTexts == {<<>>, <<" ">>}

\* "wallet"
TextWallet == <<"ji", "gab">>

\* The item_name and description fields of a registration, whether an image
\* comes with it, and what describe_image_with_llava makes of the image.
SentNames == IF "blank" \in env_faults THEN BlankTexts \cup {TextWallet} ELSE {<<>>}
SentDescriptions == IF "blank" \in env_faults THEN BlankTexts \cup {TextWallet} ELSE {TextWallet}
SentImages == IF "blank" \in env_faults THEN BOOLEAN ELSE {FALSE}
Captions == {<<>>, TextWallet}

\* What preprocess_text makes of a description: the correction model and the
\* stopword filter leave a text or nothing.
Preprocessed(text) == {<<>>, strip(text)}

\* image_description: the caption, or the description when captioning failed.
ImageDescription(image_file, caption, raw_description) ==
    IF ~image_file THEN <<>>
    ELSE IF caption = <<>> THEN (IF raw_description # <<>> THEN strip(raw_description) ELSE <<>>)
    ELSE caption

\* Every field counted as text, however empty.
Parts_blank(image_description, item_name, raw_description, processed_description) == <<image_description, item_name, raw_description>>

\* parts: the caption, the stripped item_name and the description (as
\* preprocessed, or stripped when preprocessing leaves nothing), each only
\* when it is not empty.
Parts(image_description, item_name, raw_description, processed_description) ==
    (IF image_description # <<>> THEN <<image_description>> ELSE <<>>)
    \o (IF item_name # <<>> /\ strip(item_name) # <<>>
        THEN <<strip(item_name)>> ELSE <<>>)
    \o (IF raw_description # <<>> /\ strip(raw_description) # <<>>
        THEN (IF processed_description # <<>> THEN <<processed_description>>
              ELSE <<strip(raw_description)>>)
        ELSE <<>>)

\* The fields of a registration as the response tells them apart: parts is
\* kept with the request where fields may be blank.
SentParts(parts) == IF "blank" \in env_faults THEN parts ELSE <<>>

\* create_embedding up to the file lock: item_id is required, then some
\* text, then the handler waits for .faiss_lock.
create_embedding(p) ==
    /\ pc[p] = "idle"
    /\ \E fid \in SentItemIds, item_name \in SentNames, raw_description \in SentDescriptions, image_file \in SentImages, caption \in Captions :
        \E processed_description \in Preprocessed(raw_description) :
          LET image_description == ImageDescription(image_file, caption, raw_description)
              parts == Parts(image_description, item_name, raw_description,
                             processed_description)
          IN
          IF fid = <<>> THEN
             /\ Respond(p, [NoResp EXCEPT !.op = "create", !.status = 400])
             /\ UNCHANGED <<flock, snap>>
          ELSE IF parts = <<>> THEN
             /\ Respond(p, [NoResp EXCEPT !.op = "create", !.status = 400,
                                          !.note = "description required"])
             /\ UNCHANGED <<flock, snap>>
          ELSE
             /\ VectorsHeld(workers) < MaxVectors
             /\ flock = 0
             /\ flock' = p
             /\ Begin(p, [NoReq EXCEPT !.name = "create", !.form_id = fid,
                                       !.parts = SentParts(parts),
                                       !.before = StoreBefore(p)], "add_cs")
    /\ UNCHANGED <<call_vars, item_metadata, pipeline, faiss_lock, search_thread, index_type, workers, env_faults, unsaved, faiss_index, id_mapping,
                   pending_save_count, disk, gone, assigned, dirty, live>>

\* The ordinal taken one too high.
NewOrdinal_off(ix) == ntotal(ix)

\* faiss_idx = faiss_index.ntotal - 1, read after the add.
NewOrdinal(ix) == ntotal(ix) - 1

\* An unlock that is skipped when the locked block raises.
LOCK_UN_unlessraised(holder, raised) == IF raised THEN holder ELSE 0

\* fcntl.flock(lock_file.fileno(), fcntl.LOCK_UN) in the finally clause of a
\* locked block: the lock is free whether or not the block raised.
LOCK_UN(holder, raised) == 0

\* The vector of a request: the embedding of the item's text.
VectorOf(fid) == IF IsIntLiteral(fid) THEN IntValue(fid) ELSE 0

\* The critical section of create_embedding and of process_item: the vector
\* is added, then int(item_id) is stored under the new ordinal.
AddVector(p, ix) ==
    /\ LET q == req[p]
           faiss_idx == NewOrdinal(ix)
           parsed == IsIntLiteral(q.form_id)
           item == IntValue(q.form_id)
           count == pending_save_count[p] + 1
           should_save == count >= save_batch_size
           again == q.reused \/ faiss_idx \in assigned[p]
           traced == parsed /\ Traced
       IN
       /\ faiss_index' = [faiss_index EXCEPT ![p] = ix]
       /\ dirty' = [dirty EXCEPT ![p] = Shared]
       /\ flock' = LOCK_UN(p, ~parsed)
       /\ id_mapping' = IF parsed THEN [id_mapping EXCEPT ![p] = Put(@, faiss_idx, item)]
                        ELSE id_mapping
       /\ assigned' = IF traced THEN [assigned EXCEPT ![p] = @ \cup {faiss_idx}]
                      ELSE assigned
       /\ gone' = IF traced THEN [gone EXCEPT ![p] = @ \ {item}] ELSE gone
       /\ live' = IF parsed /\ Shared THEN live \cup {item} ELSE live
       /\ unsaved' = IF parsed /\ Counted /\ q.name = "create"
                     THEN [unsaved EXCEPT ![p] = Min(@ + 1, save_batch_size)]
                     ELSE unsaved
       /\ IF ~parsed THEN
             \* int(item_id) raises.  In process_item the except clause
             \* evaluates int(item_id) again: the ValueError leaves
             \* process_item and ends the whole batch.
             /\ Respond(p, HandlerResponse(q, TRUE, FALSE))
             /\ UNCHANGED pending_save_count
          ELSE IF q.name = "create" THEN
             IF should_save THEN
                /\ pending_save_count' = [pending_save_count EXCEPT ![p] = 0]
                /\ pc' = [pc EXCEPT ![p] = "save"]
                /\ req' = [req EXCEPT ![p].faiss_idx = faiss_idx, ![p].reused = again]
                /\ UNCHANGED <<resp, found>>
             ELSE
                /\ pending_save_count' = [pending_save_count EXCEPT ![p] = count]
                /\ Respond(p, HandlerResponse(
                      [q EXCEPT !.faiss_idx = faiss_idx, !.reused = again], FALSE, FALSE))
          ELSE
             /\ pc' = [pc EXCEPT ![p] = "batch_next"]
             /\ req' = [req EXCEPT ![p].items = Tail(@),
                                   ![p].reused = again,
                                   ![p].results = Append(@,
                                       [item_id |-> item, success |-> TRUE,
                                        faiss_idx |-> faiss_idx])]
             /\ UNCHANGED <<pending_save_count, resp, found>>
    /\ UNCHANGED <<call_vars, item_metadata, pipeline, index_type, workers, env_faults, disk, snap>>

\* create_embedding and process_item inside the file lock, one request at a
\* time in the process: `with _faiss_lock` and its body.
add_vector(p) ==
    /\ pc[p] = "add_cs"
    /\ AddVector(p, IndexAdd(faiss_index[p], VectorOf(req[p].form_id)))
    /\ UNCHANGED <<faiss_lock, search_thread>>

\* Whether the process serves each request in a thread of its own: the
\* development server of `python app.py`.
Threaded == "threads" \in env_faults

\* With request threads, the critical section of create_embedding in its two
\* statements.  First `with _faiss_lock` is entered and faiss_index.add runs.
faiss_add(p) ==
    /\ Threaded
    /\ pc[p] = "add_cs"
    /\ faiss_lock[p] = 0
    /\ faiss_lock' = [faiss_lock EXCEPT ![p] = 1]
    /\ faiss_index' = [faiss_index EXCEPT ![p] = IndexAdd(@, VectorOf(req[p].form_id))]
    /\ pc' = [pc EXCEPT ![p] = "add_mapping"]
    /\ UNCHANGED <<call_vars, item_metadata, pipeline, search_thread, index_type, workers, env_faults, unsaved, id_mapping,
                   pending_save_count, disk, flock, req, resp, found, snap, gone,
                   assigned, dirty, live>>

\* Then the ordinal is read back, id_mapping and the pending counter are
\* written, and both locks are released.
store_mapping(p) ==
    /\ pc[p] = "add_mapping"
    /\ AddVector(p, faiss_index[p])
    /\ faiss_lock' = [faiss_lock EXCEPT ![p] = 0]
    /\ UNCHANGED search_thread

\* ------------------------------------------------------------------- batch
RECURSIVE SeqsUpTo(_, _)
SeqsUpTo(S, n) ==
    IF n = 0 THEN {<<>>}
    ELSE LET shorter == SeqsUpTo(S, n - 1)
         IN shorter \cup {Append(s, x) : s \in {t \in shorter : Len(t) = n - 1}, x \in S}

BatchInputs == SeqsUpTo(SentItemIds, MaxBatchItems) \ {<<>>}

\* create_embeddings_batch: items must be a non-empty list.
create_embeddings_batch(p) ==
    /\ pc[p] = "idle"
    /\ \E items \in BatchInputs :
          /\ VectorsHeld(workers) + Len(items) <= MaxVectors
          /\ Begin(p, [NoReq EXCEPT !.name = "batch", !.items = items,
                                   !.total = Len(items),
                                   !.before = StoreBefore(p)], "batch_next")
    /\ UNCHANGED <<call_vars, item_metadata, pipeline, faiss_lock, search_thread, index_type, workers, env_faults, unsaved, faiss_index, id_mapping,
                   pending_save_count, disk, flock, gone, assigned, dirty, live>>

\* The loop of create_embeddings_batch: process_item on the next item up to
\* the file lock, or the end of the loop, which resets the pending counter
\* and goes on to save_faiss().
batch_next(p) ==
    /\ pc[p] = "batch_next"
    /\ LET q == req[p] IN
       IF q.items = <<>> THEN
          /\ pending_save_count' = [pending_save_count EXCEPT ![p] = 0]
          /\ pc' = [pc EXCEPT ![p] = "save"]
          /\ UNCHANGED <<req, flock>>
       ELSE IF Head(q.items) = <<>> THEN
          /\ req' = [req EXCEPT ![p].items = Tail(@),
                                ![p].results = Append(@,
                                    [item_id |-> 0, success |-> FALSE, faiss_idx |-> -1])]
          /\ UNCHANGED <<pc, pending_save_count, flock>>
       ELSE
          /\ flock = 0
          /\ flock' = p
          /\ pc' = [pc EXCEPT ![p] = "add_cs"]
          /\ req' = [req EXCEPT ![p].form_id = Head(q.items)]
          /\ UNCHANGED pending_save_count
    /\ UNCHANGED <<call_vars, item_metadata, pipeline, faiss_lock, search_thread, index_type, workers, env_faults, unsaved, faiss_index, id_mapping,
                   disk, resp, found, snap, gone, assigned, dirty, live>>

\* -------------------------------------------------------------- save_faiss
\* os.remove of the temporary files in save_faiss's except clause.
CleanTemp(d) == [d EXCEPT !.idx_tmp = NoIndexFile, !.map_tmp = NoMappingFile]

\* A snapshot whose mapping file holds no entry.
SnapshotOf_unmapped(ix, m) == <<WriteIndex(ix), PickleDump({})>>

\* The pair of files a save_faiss() of (ix, m) moves into place.
SnapshotOf(ix, m) == <<WriteIndex(ix), PickleDump(m)>>

\* save_faiss up to the size check of the temporary index: the file lock,
\* the free-space check, both temporary files.
save_write_temp(p) ==
    /\ pc[p] = "save"
    /\ flock = 0
    /\ \E low \in DiskLow :
          LET files == SnapshotOf(faiss_index[p], id_mapping[p])
              d == [disk EXCEPT !.idx_tmp = files[1], !.map_tmp = files[2]]
          IN IF low THEN
                /\ disk' = CleanTemp(disk)
                /\ Respond(p, HandlerResponse(req[p], TRUE, FALSE))
                /\ UNCHANGED <<flock, snap>>
             ELSE IF files[1].size = 0 THEN
                /\ disk' = CleanTemp(d)
                /\ Respond(p, HandlerResponse(req[p], TRUE, FALSE))
                /\ UNCHANGED <<flock, snap>>
             ELSE
                /\ disk' = d
                /\ flock' = p
                /\ pc' = [pc EXCEPT ![p] = "save_backup"]
                /\ req' = [req EXCEPT ![p].temp_index_size = files[1].size]
                /\ snap' = [valid |-> TRUE, done |-> FALSE,
                            prev |-> ActivePair(disk),
                            index |-> faiss_index[p],
                            mapping |-> id_mapping[p]]
                /\ UNCHANGED <<resp, found>>
    /\ UNCHANGED <<call_vars, item_metadata, pipeline, faiss_lock, search_thread, index_type, workers, env_faults, unsaved, faiss_index, id_mapping,
                   pending_save_count, gone, assigned, dirty, live>>

\* The previous index file is copied to .backup (the old backup is removed
\* first); a failure of either is ignored.
save_backup(p) ==
    /\ pc[p] = "save_backup"
    /\ \E outcome \in MoveOutcomes :
          disk' = IF Exists(disk.idx) /\ outcome = "moved"
                  THEN [disk EXCEPT !.idx_backup = disk.idx]
                  ELSE IF Exists(disk.idx) /\ outcome = "removed"
                  THEN [disk EXCEPT !.idx_backup = NoIndexFile]
                  ELSE disk
    /\ pc' = [pc EXCEPT ![p] = "save_move_index"]
    /\ UNCHANGED <<call_vars, item_metadata, pipeline, faiss_lock, search_thread, index_type, workers, env_faults, unsaved, faiss_index, id_mapping,
                   pending_save_count, flock, req, resp, found, snap, gone,
                   assigned, dirty, live>>

\* A shutil.move of save_faiss raises: the finally clause unlocks, the except
\* clause removes the temporary files and raises again, and the caller's own
\* except clause answers.
save_raise(p) ==
    /\ disk' = CleanTemp(disk)
    /\ flock' = LOCK_UN(p, TRUE)
    /\ snap' = IF snap.valid
               THEN [snap EXCEPT !.prev = <<NoIndexFile, NoMappingFile>>]
               ELSE snap
    /\ Respond(p, HandlerResponse(req[p], TRUE, FALSE))

\* shutil.move(temp_index_path, FAISS_INDEX_PATH)
save_move_index(p) ==
    /\ pc[p] = "save_move_index"
    /\ \E moved \in MoveDone :
          IF moved THEN
             /\ disk' = [disk EXCEPT !.idx = disk.idx_tmp, !.idx_tmp = NoIndexFile]
             /\ pc' = [pc EXCEPT ![p] = "save_move_mapping"]
             /\ UNCHANGED <<flock, req, resp, found, snap>>
          ELSE save_raise(p)
    /\ UNCHANGED <<call_vars, item_metadata, pipeline, faiss_lock, search_thread, index_type, workers, env_faults, unsaved, faiss_index, id_mapping,
                   pending_save_count, gone, assigned, dirty, live>>

\* shutil.move(temp_mapping_path, FAISS_MAPPING_PATH)
save_move_mapping(p) ==
    /\ pc[p] = "save_move_mapping"
    /\ \E moved \in MoveDone :
          IF moved THEN
             /\ disk' = [disk EXCEPT !.map = disk.map_tmp, !.map_tmp = NoMappingFile]
             /\ pc' = [pc EXCEPT ![p] = "save_verify"]
             /\ UNCHANGED <<flock, req, resp, found, snap>>
          ELSE save_raise(p)
    /\ UNCHANGED <<call_vars, item_metadata, pipeline, faiss_lock, search_thread, index_type, workers, env_faults, unsaved, faiss_index, id_mapping,
                   pending_save_count, gone, assigned, dirty, live>>

\* The final checks of save_faiss, the unlock, and the caller's return.
save_verify(p) ==
    /\ pc[p] = "save_verify"
    /\ LET bad == \/ ~Exists(disk.idx)
                  \/ disk.idx.size = 0
                  \/ disk.idx.size # req[p].temp_index_size
       IN /\ Respond(p, HandlerResponse(req[p], bad, ~bad))
          /\ disk' = IF bad THEN CleanTemp(disk) ELSE disk
          /\ snap' = IF snap.valid
                     THEN [snap EXCEPT !.done = ~bad,
                                       !.prev = <<NoIndexFile, NoMappingFile>>]
                     ELSE snap
          /\ dirty' = [dirty EXCEPT ![p] = bad /\ dirty[p]]
          /\ unsaved' = IF bad THEN unsaved ELSE [unsaved EXCEPT ![p] = 0]
          /\ flock' = LOCK_UN(p, bad)
    /\ UNCHANGED <<call_vars, item_metadata, pipeline, faiss_lock, search_thread, index_type, workers, env_faults, faiss_index, id_mapping,
                   pending_save_count, gone, assigned, live>>


\* ------------------------------------------------------------------ delete
\* A lookup that finds every ordinal, whatever the id.
IndicesOf_all(m, item_id) == Keys(m)

\* faiss_indices_to_delete = [k for k, v in id_mapping.items() if v == item_id]
IndicesOf(m, item_id) == {e[1] : e \in {x \in m : x[2] = item_id}}

\* A removal that leaves the mapping as it was.
RemoveKeys_none(m, ks) == m

\* del id_mapping[faiss_idx] for every ordinal found.
RemoveKeys(m, ks) == {e \in m : e[1] \notin ks}

\* With the ordinals of one item: the index after the remove_ids attempt and
\* the count that attempt reports.
IndexAfterRemove(ix, ks) == IF RemoveIdsRaises(ix) THEN ix ELSE RemoveIds(ix, ks)
RemovedCount(ix, ks) == IF RemoveIdsRaises(ix) THEN 0 ELSE Cardinality(ks)

Max(a, b) == IF a >= b THEN a ELSE b

\* delete_embedding enters `with _faiss_lock`.
delete_embedding(p) ==
    /\ pc[p] = "idle"
    /\ \E item_id \in ItemIds :
          Begin(p, [NoReq EXCEPT !.name = "delete", !.item_id = item_id], "delete_cs")
    /\ UNCHANGED <<call_vars, item_metadata, pipeline, faiss_lock, search_thread, index_type, workers, env_faults, unsaved, faiss_index, id_mapping,
                   pending_save_count, disk, flock, gone, assigned, dirty, live>>

\* The body of `with _faiss_lock` in delete_embedding.
delete_remove(p) ==
    /\ pc[p] = "delete_cs"
    /\ LET q == req[p]
           ks == IndicesOf(id_mapping[p], q.item_id)
       IN IF ks = {} THEN
             /\ Respond(p, [NoResp EXCEPT !.op = "delete", !.status = 200,
                                          !.item_id = q.item_id,
                                          !.note = IF q.item_id \in gone[p]
                                                   THEN "again" ELSE ""])
             /\ UNCHANGED <<faiss_index, id_mapping, gone, dirty, live>>
          ELSE
             /\ faiss_index' = [faiss_index EXCEPT ![p] = IndexAfterRemove(@, ks)]
             /\ id_mapping' = [id_mapping EXCEPT ![p] = RemoveKeys(@, ks)]
             /\ req' = [req EXCEPT ![p].deleted_count =
                           Max(RemovedCount(faiss_index[p], ks), 1),
                                   ![p].faiss_indices_to_delete = ks]
             /\ pc' = [pc EXCEPT ![p] = "save"]
             /\ gone' = IF Traced THEN [gone EXCEPT ![p] = @ \cup {q.item_id}] ELSE gone
             /\ dirty' = [dirty EXCEPT ![p] = Shared]
             /\ live' = IF Shared THEN live \ {q.item_id} ELSE live
             /\ UNCHANGED <<resp, found>>
    /\ UNCHANGED <<call_vars, item_metadata, pipeline, faiss_lock, search_thread, index_type, workers, env_faults, unsaved, pending_save_count, disk,
                   flock, snap, assigned>>

\* -------------------------------------------------------------------- sync
Orders(S) ==
    {f \in [1..Cardinality(S) -> S] : \A i, j \in 1..Cardinality(S) : f[i] = f[j] => i = j}

RECURSIVE RemoveOrphans(_, _, _, _)
\* The loop over orphaned_item_ids, in the order the set is iterated:
\* the index, the mapping and deleted_count after it.
RemoveOrphans(ix, m, count, order) ==
    IF order = <<>> THEN [index |-> ix, mapping |-> m, deleted_count |-> count]
    ELSE LET ks == IndicesOf(m, Head(order)) IN
         IF ks = {} THEN RemoveOrphans(ix, m, count, Tail(order))
         ELSE RemoveOrphans(IndexAfterRemove(ix, ks), RemoveKeys(m, ks),
                            count + RemovedCount(ix, ks), Tail(order))

\* An orphan search that takes every mapped id for an orphan.
OrphanedItemIds_all(m, db_item_set) == Values(m)

\* orphaned_item_ids = faiss_item_ids - db_item_set: the mapped ids that the
\* database does not hold.
OrphanedItemIds(m, db_item_set) == Values(m) \ db_item_set

\* The db_item_ids of a sync request, kept with the request and its response
\* where Counted.
SentDbItemIds(db_item_ids) == IF Counted THEN db_item_ids ELSE {}

\* sync_faiss_with_db up to `with _faiss_lock`.
sync_faiss_with_db(p) ==
    /\ pc[p] = "idle"
    /\ \E db_item_ids \in SUBSET ItemIds :
          LET orphaned_item_ids == OrphanedItemIds(id_mapping[p], db_item_ids) IN
          IF orphaned_item_ids = {} THEN
             /\ Respond(p, [NoResp EXCEPT !.op = "sync", !.status = 200,
                                          !.db_item_ids = SentDbItemIds(db_item_ids)])
             /\ snap' = snap
          ELSE
             Begin(p, [NoReq EXCEPT !.name = "sync", !.orphaned = orphaned_item_ids,
                                    !.db_item_ids = SentDbItemIds(db_item_ids),
                                    !.before = IF Counted THEN StoreBefore(p)
                                               ELSE NoBefore],
                   "sync_cs")
    /\ UNCHANGED <<call_vars, item_metadata, pipeline, faiss_lock, search_thread, index_type, workers, env_faults, unsaved, faiss_index, id_mapping,
                   pending_save_count, disk, flock, gone, assigned, dirty, live>>

\* The body of `with _faiss_lock` in sync_faiss_with_db.
sync_remove(p) ==
    /\ pc[p] = "sync_cs"
    /\ \E order \in Orders(req[p].orphaned) :
          LET r == RemoveOrphans(faiss_index[p], id_mapping[p], 0, order) IN
          /\ faiss_index' = [faiss_index EXCEPT ![p] = r.index]
          /\ id_mapping' = [id_mapping EXCEPT ![p] = r.mapping]
          /\ req' = [req EXCEPT ![p].deleted_count = r.deleted_count]
    /\ pc' = [pc EXCEPT ![p] = "save"]
    /\ gone' = IF Traced THEN [gone EXCEPT ![p] = @ \cup req[p].orphaned] ELSE gone
    /\ dirty' = [dirty EXCEPT ![p] = Shared]
    /\ live' = IF Shared THEN live \ req[p].orphaned ELSE live
    /\ UNCHANGED <<call_vars, item_metadata, pipeline, faiss_lock, search_thread, index_type, workers, env_faults, unsaved, pending_save_count, disk,
                   flock, resp, found, snap, assigned>>

\* Inner products of the query with the stored vectors, in tenths.
ScoreLevels == {2, 5}

\* ---------------------------------------------------------- query pipeline
\* Texts are sequences of characters: a Hangul syllable is written by the
\* romanization of its letters, a Latin letter or digit c as "_c", the space
\* as " ".

\* services/gating.py
COLOR_CONFLICT_PENALTY == -30
PATTERN_CONFLICT_PENALTY == -30
COLOR_MATCH_BONUS == 20
PATTERN_MATCH_BONUS == 15
BRAND_MATCH_BONUS == 25
MIN_SCORE_TO_PASS == -40

\* COLOR_KEYWORDS: normalized value and its variants, in the order of the dictionary.
COLOR_KEYWORDS ==
    <<
      [name |-> "geomeunsaeg",
       variants |-> <<<<"geom", "eun", "saeg">>,
                      <<"geom", "jeong">>,
                      <<"geom", "jeong", "saeg">>,
                      <<"beul", "raeg">>,
                      <<"geom">>>>],
      [name |-> "huinsaeg",
       variants |-> <<<<"huin", "saeg">>,
                      <<"ha", "yang">>,
                      <<"ha", "yan", "saeg">>,
                      <<"hwa", "i", "teu">>,
                      <<"huin">>>>],
      [name |-> "ppalgansaeg",
       variants |-> <<<<"ppal", "gan", "saeg">>,
                      <<"ppal", "gang">>,
                      <<"ppal", "gang", "saeg">>,
                      <<"re", "deu">>,
                      <<"ppal">>>>],
      [name |-> "paransaeg",
       variants |-> <<<<"pa", "ran", "saeg">>,
                      <<"pa", "rang">>,
                      <<"pa", "rang", "saeg">>,
                      <<"beul", "ru">>,
                      <<"pa">>>>],
      [name |-> "noransaeg",
       variants |-> <<<<"no", "ran", "saeg">>,
                      <<"no", "rang">>,
                      <<"no", "rang", "saeg">>,
                      <<"yel", "ro", "u">>,
                      <<"no">>>>],
      [name |-> "chorogsaeg",
       variants |-> <<<<"cho", "rog", "saeg">>,
                      <<"cho", "rog">>,
                      <<"nog", "saeg">>,
                      <<"geu", "rin">>,
                      <<"cho">>>>],
      [name |-> "hoesaeg",
       variants |-> <<<<"hoe", "saeg">>,
                      <<"geu", "re", "i">>,
                      <<"hoe">>>>],
      [name |-> "beijisaeg",
       variants |-> <<<<"be", "i", "ji", "saeg">>,
                      <<"be", "i", "ji">>,
                      <<"be", "i", "ji", "saeg">>>>],
      [name |-> "galsaeg",
       variants |-> <<<<"gal", "saeg">>,
                      <<"beu", "ra", "un">>,
                      <<"gal">>>>],
      [name |-> "bunhongsaeg",
       variants |-> <<<<"bun", "hong", "saeg">>,
                      <<"ping", "keu">>,
                      <<"bun", "hong">>>>],
      [name |-> "juhwangsaeg",
       variants |-> <<<<"ju", "hwang", "saeg">>,
                      <<"o", "ren", "ji">>,
                      <<"ju", "hwang">>>>],
      [name |-> "borasaeg",
       variants |-> <<<<"bo", "ra", "saeg">>,
                      <<"peo", "peul">>,
                      <<"bo", "ra">>>>]
    >>

\* PATTERN_KEYWORDS: normalized value and its variants, in the order of the dictionary.
PATTERN_KEYWORDS ==
    <<
      [name |-> "chekeu",
       variants |-> <<<<"che", "keu">>,
                      <<"che", "keu", "mu", "nui">>,
                      <<"che", "keu", "pae", "teon">>,
                      <<"che", "keu", "mu", "nui">>>>],
      [name |-> "seuteuraipeu",
       variants |-> <<<<"seu", "teu", "ra", "i", "peu">>,
                      <<"jul", "mu", "nui">>,
                      <<"jul">>,
                      <<"se", "ro", "jul">>,
                      <<"ga", "ro", "jul">>,
                      <<"jul", "mu", "nui">>>>],
      [name |-> "doteu",
       variants |-> <<<<"do", "teu">>,
                      <<"jeom", "mu", "nui">>,
                      <<"jeom">>>>],
      [name |-> "peulrawo",
       variants |-> <<<<"peul", "ra", "wo">>,
                      <<"kkoch", "mu", "nui">>,
                      <<"kkoch">>>>],
      [name |-> "reinbou",
       variants |-> <<<<"re", "in", "bo", "u">>,
                      <<"mu", "ji", "gae">>>>],
      [name |-> "solrideu",
       variants |-> <<<<"sol", "ri", "deu">>,
                      <<"mu", "nui", "eobs", "eum">>,
                      <<"dan", "saeg">>>>]
    >>

\* BRAND_KEYWORDS: normalized value and its variants, in the order of the dictionary.
BRAND_KEYWORDS ==
    <<
      [name |-> "naiki",
       variants |-> <<<<"na", "i", "ki">>,
                      <<"ni", "ke">>,
                      <<"_n", "_i", "_k", "_e">>,
                      <<"_N", "_I", "_K", "_E">>>>],
      [name |-> "adidaseu",
       variants |-> <<<<"a", "di", "da", "seu">>,
                      <<"a", "di">>,
                      <<"_a", "_d", "_i", "_d", "_a", "_s">>,
                      <<"_A", "_D", "_I", "_D", "_A", "_S">>>>],
      [name |-> "saemsonaiteu",
       variants |-> <<<<"saem", "so", "na", "i", "teu">>,
                      <<"_s", "_a", "_m", "_s", "_o", "_n", "_i", "_t", "_e">>,
                      <<"_S", "_A", "_M", "_S", "_O", "_N", "_I", "_T", "_E">>>>],
      [name |-> "gujji",
       variants |-> <<<<"gu", "jji">>,
                      <<"_g", "_u", "_c", "_c", "_i">>,
                      <<"_G", "_U", "_C", "_C", "_I">>>>],
      [name |-> "peurada",
       variants |-> <<<<"peu", "ra", "da">>,
                      <<"_p", "_r", "_a", "_d", "_a">>,
                      <<"_P", "_R", "_A", "_D", "_A">>>>],
      [name |-> "ruibitong",
       variants |-> <<<<"ru", "i", "bi", "tong">>,
                      <<"_l", "_v">>,
                      <<"_l", "_o", "_u", "_i", "_s", " ", "_v", "_u", "_i", "_t", "_t", "_o", "_n">>,
                      <<"_L", "_V">>>>],
      [name |-> "aipon",
       variants |-> <<<<"a", "i", "pon">>,
                      <<"_i", "_p", "_h", "_o", "_n", "_e">>,
                      <<"_i", "_P", "_h", "_o", "_n", "_e">>,
                      <<"ae", "peul">>,
                      <<"_a", "_p", "_p", "_l", "_e">>>>],
      [name |-> "gaelreogsi",
       variants |-> <<<<"gael", "reog", "si">>,
                      <<"_g", "_a", "_l", "_a", "_x", "_y">>,
                      <<"sam", "seong">>,
                      <<"_s", "_a", "_m", "_s", "_u", "_n", "_g">>>>]
    >>

\* The stopwords of extract_keywords.
stopwords ==
    {<<"e", "seo">>,
     <<"eul">>,
     <<"reul">>,
     <<"i">>,
     <<"ga">>,
     <<"ui">>,
     <<"e">>,
     <<"wa">>,
     <<"gwa">>,
     <<"ro">>,
     <<"eu", "ro">>,
     <<"eun">>,
     <<"neun">>,
     <<"do">>,
     <<"man">>,
     <<"kka", "ji">>,
     <<"bu", "teo">>,
     <<"e", "ge">>,
     <<"kke">>,
     <<"han", "te">>,
     <<"ilh", "eo", "beo", "rin">>,
     <<"ilh", "eun">>,
     <<"bun", "sil", "han">>,
     <<"chaj", "neun">>,
     <<"chaj", "go", "iss", "neun">>,
     <<"chaj", "go">>,
     <<"chaj", "a">>,
     <<"bal", "gyeon", "han">>,
     <<"bal", "gyeon">>,
     <<"seub", "deug", "han">>,
     <<"seub", "deug">>,
     <<"ju", "un">>,
     <<"ju", "woss">>}

\* str.lower() on one character.
LowerChar(t) ==
    CASE t = "_A" -> "_a" []
         t = "_B" -> "_b" []
         t = "_C" -> "_c" []
         t = "_D" -> "_d" []
         t = "_E" -> "_e" []
         t = "_F" -> "_f" []
         t = "_G" -> "_g" []
         t = "_H" -> "_h" []
         t = "_I" -> "_i" []
         t = "_J" -> "_j" []
         t = "_K" -> "_k" []
         t = "_L" -> "_l" []
         t = "_M" -> "_m" []
         t = "_N" -> "_n" []
         t = "_O" -> "_o" []
         t = "_P" -> "_p" []
         t = "_Q" -> "_q" []
         t = "_R" -> "_r" []
         t = "_S" -> "_s" []
         t = "_T" -> "_t" []
         t = "_U" -> "_u" []
         t = "_V" -> "_v" []
         t = "_W" -> "_w" []
         t = "_X" -> "_x" []
         t = "_Y" -> "_y" []
         t = "_Z" -> "_z" []
         OTHER -> t

\* "black wallet"
QueryBlackWallet ==
    <<"geom", "eun", "saeg", " ", "ji", "gab">>

\* "black check wallet"
QueryBlackCheckWallet ==
    <<"geom", "eun", "saeg", " ", "che", "keu", " ", "ji", "gab">>

\* "black check Nike wallet"
QueryBlackCheckNikeWallet ==
    <<"geom", "eun", "saeg", " ", "che", "keu", " ", "na", "i", "ki", " ", "ji", "gab">>

\* "wallet"
QueryWallet ==
    <<"ji", "gab">>

\* "white wallet"
TextWhiteWallet ==
    <<"huin", "saeg", " ", "ji", "gab">>

\* "black check wallet"
TextBlackCheckWallet ==
    <<"geom", "eun", "saeg", " ", "che", "keu", " ", "ji", "gab">>

\* "white striped wallet"
TextWhiteStripeWallet ==
    <<"huin", "saeg", " ", "jul", "mu", "nui", " ", "ji", "gab">>

\* the brand column "NIKE"
TextNike ==
    <<"_N", "_I", "_K", "_E">>

\* str.lower().
lower(text) == [i \in 1..Len(text) |-> LowerChar(text[i])]

\* `v in text` on strings.
Contains(text, v) ==
    \E i \in 1..(Len(text) - Len(v) + 1) : SubSeq(text, i, i + Len(v) - 1) = v

\* re.search(r'\b' + re.escape(v) + r'\b', text, re.IGNORECASE): v as whole
\* words of text.
SearchWord(text, v) ==
    LET t == lower(text)
        w == lower(v)
    IN \E i \in 1..(Len(t) - Len(w) + 1) :
          /\ SubSeq(t, i, i + Len(w) - 1) = w
          /\ i = 1 \/ t[i - 1] = " "
          /\ i + Len(w) - 1 = Len(t) \/ t[i + Len(w)] = " "

RECURSIVE split(_)
\* str.split(): the words between the spaces.
split(t) ==
    LET s == lstrip(t) IN
    IF s = <<>> THEN <<>>
    ELSE LET n == IF \E i \in 1..Len(s) : s[i] = " "
                  THEN (CHOOSE i \in 1..Len(s) :
                           s[i] = " " /\ \A j \in 1..(i - 1) : s[j] # " ") - 1
                  ELSE Len(s)
         IN <<SubSeq(s, 1, n)>> \o split(SubSeq(s, n + 1, Len(s)))

\* The elements of a list.
Elements(list) == {list[i] : i \in 1..Len(list)}

\* The normalized values of the entries of a dictionary that were selected.
Names(entries) == [i \in 1..Len(entries) |-> entries[i].name]

extract_colors(query) ==
    LET hit(e) == \E k \in 1..Len(e.variants) :
                     \/ Contains(query, e.variants[k])
                     \/ Contains(lower(query), lower(e.variants[k]))
    IN Names(SelectSeq(COLOR_KEYWORDS, hit))

extract_patterns(query) ==
    LET hit(e) == \E k \in 1..Len(e.variants) :
                     \/ Contains(query, e.variants[k])
                     \/ Contains(lower(query), lower(e.variants[k]))
    IN Names(SelectSeq(PATTERN_KEYWORDS, hit))

extract_brands(query) ==
    LET hit(e) == \E k \in 1..Len(e.variants) : SearchWord(query, e.variants[k])
    IN Names(SelectSeq(BRAND_KEYWORDS, hit))

extract_keywords(query) ==
    LET kept(word) == word \notin stopwords
    IN SelectSeq(split(query), kept)

\* An attribute dictionary without keys: a key that is absent and a key with
\* an empty list are read alike everywhere (`.get(key, [])`).
NoAttributes == [color |-> <<>>, pattern |-> <<>>, brand |-> <<>>]

\* understand_query: the attributes and keywords of QueryAttributes (the
\* category is always None; the context list is read by no later stage).
understand_query(query) ==
    IF strip(query) = <<>> THEN [attributes |-> NoAttributes, keywords |-> <<>>]
    ELSE LET q == strip(query)
         IN [attributes |-> [color |-> extract_colors(q),
                             pattern |-> extract_patterns(q),
                             brand |-> extract_brands(q)],
             keywords |-> extract_keywords(q)]

extract_attributes_from_text(text) ==
    IF strip(text) = <<>> THEN NoAttributes
    ELSE [color |-> extract_colors(text),
          pattern |-> extract_patterns(text),
          brand |-> extract_brands(text)]

\* A conflict test that does not look whether the item has a value.
has_attribute_conflict_onesided(query_attrs, item_attrs, attribute_type) ==
    /\ query_attrs[attribute_type] # <<>>
    /\ Elements(query_attrs[attribute_type])
          \cap Elements(item_attrs[attribute_type]) = {}

has_attribute_conflict(query_attrs, item_attrs, attribute_type) ==
    LET query_values == query_attrs[attribute_type]
        item_values == item_attrs[attribute_type]
    IN /\ query_values # <<>>
       /\ item_values # <<>>
       /\ Elements(query_values) \cap Elements(item_values) = {}

\* Both lists are given and share a value.
AttributeMatch(query_attrs, item_attrs, attribute_type) ==
    Elements(query_attrs[attribute_type])
       \cap Elements(item_attrs[attribute_type]) # {}

\* The penalty of check_attribute_conflicts.
check_attribute_conflicts(query_attrs, item_attrs) ==
    (IF has_attribute_conflict(query_attrs, item_attrs, "color")
     THEN COLOR_CONFLICT_PENALTY ELSE 0)
    + (IF has_attribute_conflict(query_attrs, item_attrs, "pattern")
       THEN PATTERN_CONFLICT_PENALTY ELSE 0)

\* A color bonus given whenever both sides name a color.
calculate_attribute_bonus_anycolor(query_attrs, item_attrs) ==
    (IF query_attrs.color # <<>> /\ item_attrs.color # <<>>
     THEN COLOR_MATCH_BONUS ELSE 0)
    + (IF AttributeMatch(query_attrs, item_attrs, "pattern")
       THEN PATTERN_MATCH_BONUS ELSE 0)
    + (IF AttributeMatch(query_attrs, item_attrs, "brand")
       THEN BRAND_MATCH_BONUS ELSE 0)

\* The bonus of calculate_attribute_bonus.
calculate_attribute_bonus(query_attrs, item_attrs) ==
    (IF AttributeMatch(query_attrs, item_attrs, "color")
     THEN COLOR_MATCH_BONUS ELSE 0)
    + (IF AttributeMatch(query_attrs, item_attrs, "pattern")
       THEN PATTERN_MATCH_BONUS ELSE 0)
    + (IF AttributeMatch(query_attrs, item_attrs, "brand")
       THEN BRAND_MATCH_BONUS ELSE 0)

\* f"{item_name} {item_description}".strip()
ItemText(metadata) ==
    strip(metadata.item_name \o <<" ">> \o metadata.description)

\* The attributes gate_item and rerank_items work with: those of the item's
\* text, and the brand column when BRAND_KEYWORDS knows it (an empty brand
\* stands for None).
ItemAttributes(metadata) ==
    LET item_attrs == extract_attributes_from_text(ItemText(metadata))
        item_brand_normalized == lower(strip(metadata.brand))
        known(e) == \E k \in 1..Len(e.variants) :
                       lower(e.variants[k]) = item_brand_normalized
        normalized_brand == Names(SelectSeq(BRAND_KEYWORDS, known))
    IN IF /\ item_brand_normalized # <<>>
          /\ normalized_brand # <<>>
          /\ normalized_brand[1] \notin Elements(item_attrs.brand)
       THEN [item_attrs EXCEPT !.brand = Append(@, normalized_brand[1])]
       ELSE item_attrs

\* A gate that lets every item pass.
gate_item_lenient(item_id, query_attrs, metadata) ==
    LET item_attrs == ItemAttributes(metadata)
    IN [item_id |-> item_id,
        passed |-> TRUE,
        penalty_score |-> check_attribute_conflicts(query_attrs.attributes, item_attrs),
        attribute_bonus |-> calculate_attribute_bonus(query_attrs.attributes, item_attrs)]

gate_item(item_id, query_attrs, metadata) ==
    LET item_attrs == ItemAttributes(metadata)
        penalty == check_attribute_conflicts(query_attrs.attributes, item_attrs)
        bonus == calculate_attribute_bonus(query_attrs.attributes, item_attrs)
        total_score == penalty + bonus
    IN [item_id |-> item_id,
        passed |-> total_score >= MIN_SCORE_TO_PASS,
        penalty_score |-> penalty,
        attribute_bonus |-> bonus]

\* gate_candidates: an item without metadata passes ungated.
gate_candidates(candidate_item_ids, query_attrs, metadata) ==
    LET gated == Elements(candidate_item_ids) \cap DOMAIN metadata
        gating_results == [c \in gated |-> gate_item(c, query_attrs, metadata[c])]
        kept(c) == c \notin DOMAIN metadata \/ gating_results[c].passed
    IN [passed_items |-> SelectSeq(candidate_item_ids, kept),
        gating_results |-> gating_results]

\* A score that counts the query's colors whatever the item's.
calculate_attribute_match_score_querycolor(query_attrs, item_attrs) ==
    Min((IF query_attrs.color # <<>> THEN 4 ELSE 0)
        + (IF AttributeMatch(query_attrs, item_attrs, "pattern") THEN 3 ELSE 0)
        + (IF AttributeMatch(query_attrs, item_attrs, "brand") THEN 3 ELSE 0),
        10)

\* calculate_attribute_match_score, in tenths.
calculate_attribute_match_score(query_attrs, item_attrs) ==
    Min((IF AttributeMatch(query_attrs, item_attrs, "color") THEN 4 ELSE 0)
        + (IF AttributeMatch(query_attrs, item_attrs, "pattern") THEN 3 ELSE 0)
        + (IF AttributeMatch(query_attrs, item_attrs, "brand") THEN 3 ELSE 0),
        10)

\* calculate_keyword_overlap: the Jaccard similarity as a fraction.
calculate_keyword_overlap(query_keywords, item_text) ==
    LET item_words == Elements(split(lower(item_text)))
        query_words == {lower(kw) : kw \in Elements(query_keywords)}
    IN IF query_keywords = <<>> \/ item_text = <<>> THEN [num |-> 0, den |-> 1]
       ELSE [num |-> Cardinality(query_words \cap item_words),
             den |-> Cardinality(query_words \cup item_words)]

\* A normalization that gives nothing to a similarity at or above max_sim.
WeightedSemantic_wrap(similarity) ==
    IF similarity <= 3 THEN 0
    ELSE IF 2 * similarity >= 19 THEN 0
    ELSE 2 * (similarity - 3)

\* WEIGHT_SEMANTIC * normalize_semantic_similarity(similarity), in 26ths; the
\* similarity is in tenths, min_sim is 0.3 and max_sim 0.95.
WeightedSemantic(similarity) ==
    IF similarity <= 3 THEN 0
    ELSE IF 2 * similarity >= 19 THEN 13
    ELSE 2 * (similarity - 3)

\* An attribute term that leaves the gating bonus out.
WeightedAttribute_nobonus(attribute_match, attribute_bonus) ==
    Min(30 * attribute_match, 300)

\* WEIGHT_ATTRIBUTE * min(attribute_match + normalize_gating_bonus(bonus) * 0.2,
\* 1.0), in thousandths; max_bonus is 60.
WeightedAttribute(attribute_match, attribute_bonus) ==
    Min(30 * attribute_match + Min(attribute_bonus, 60), 300)

\* The weighted sum of rerank_items, as the exact fraction
\* num / (13000 * den); float rounding is left out.
CombinedScore(semantic_sim, attribute_match, keyword_overlap, gating_bonus) ==
    [num |-> WeightedSemantic(semantic_sim) * 500 * keyword_overlap.den
                + WeightedAttribute(attribute_match, gating_bonus) * 13
                     * keyword_overlap.den
                + keyword_overlap.num * 2600,
     den |-> keyword_overlap.den]

\* The final_score rerank_items gives an item.
final_score(item_id, query_attrs, semantic_scores, metadata, gating_results) ==
    LET semantic_sim == IF item_id \in DOMAIN semantic_scores
                        THEN semantic_scores[item_id] ELSE 0
        known == item_id \in DOMAIN metadata
        attribute_match ==
            IF known
            THEN calculate_attribute_match_score(query_attrs.attributes,
                                                 ItemAttributes(metadata[item_id]))
            ELSE 0
        keyword_overlap ==
            IF known
            THEN calculate_keyword_overlap(query_attrs.keywords,
                                           ItemText(metadata[item_id]))
            ELSE [num |-> 0, den |-> 1]
        gating_bonus == IF item_id \in DOMAIN gating_results
                        THEN gating_results[item_id].attribute_bonus ELSE 0
    IN CombinedScore(semantic_sim, attribute_match, keyword_overlap, gating_bonus)

\* One final score is above another.
Above(a, b) == a.num * b.den > b.num * a.den

\* A sort that leaves the list as it is.
SortedDescending_asis(results) == results

RECURSIVE SortedDescending(_)
\* results.sort(key=lambda x: x.final_score, reverse=True): stable.
SortedDescending(results) ==
    IF results = <<>> THEN <<>>
    ELSE LET i == CHOOSE i \in 1..Len(results) :
                     /\ \A j \in 1..Len(results) :
                           ~Above(results[j].final_score, results[i].final_score)
                     /\ \A j \in 1..(i - 1) :
                           Above(results[i].final_score, results[j].final_score)
         IN <<results[i]>>
            \o SortedDescending(SubSeq(results, 1, i - 1)
                                \o SubSeq(results, i + 1, Len(results)))

rerank_items(candidate_item_ids, query_attrs, semantic_scores, metadata, gating_results) ==
    SortedDescending(
       [i \in 1..Len(candidate_item_ids) |->
           [item_id |-> candidate_item_ids[i],
            final_score |-> final_score(candidate_item_ids[i], query_attrs,
                                        semantic_scores, metadata,
                                        gating_results)]])

\* The queries and the item descriptions the pipeline is run on.
Queries ==
    {QueryBlackWallet, QueryBlackCheckWallet, QueryBlackCheckNikeWallet,
     QueryWallet}

Descriptions == {TextWhiteWallet, TextBlackCheckWallet, TextWhiteStripeWallet}

\* The rows Spring holds for the items: no item_name, a description, and a
\* brand column that is empty or "NIKE".
Metadata ==
    {[item_name |-> <<>>, description |-> d, brand |-> b] :
        d \in Descriptions, b \in {<<>>, TextNike}}

\* item_metadata dictionaries: some items may have no row.
MetadataMaps == UNION {[ids -> Metadata] : ids \in SUBSET ItemIds}

\* The rows of a catalogue where every item has a description and no brand.
Catalogues == [ItemIds -> {m \in Metadata : m.brand = <<>>}]

\* Candidate lists: item ids without repetition, in any order.
CandidateLists ==
    {c \in UNION {[1..n -> ItemIds] : n \in 0..MaxItemId} :
        \A i, j \in 1..Len(c) : c[i] = c[j] => i = j}

NoPipeline ==
    [stage |-> "none", query |-> <<>>, candidate_item_ids |-> <<>>,
     semantic_scores |-> <<>>, query_attrs |-> understand_query(<<>>),
     passed_items |-> <<>>, gating_results |-> <<>>, ranked |-> <<>>]

\* The inputs of one run: a query, the candidates and their similarities.
PipelineInputs ==
    UNION {{[NoPipeline EXCEPT !.stage = "query", !.query = q,
                               !.candidate_item_ids = c, !.semantic_scores = s] :
               q \in Queries, s \in [Elements(c) -> ScoreLevels]} :
           c \in CandidateLists}

\* The queries search_embedding is sent: where no item metadata is followed
\* the text of the query decides nothing, and one query stands for all.
SentQueries ==
    (IF DOMAIN item_metadata = {} THEN {QueryWallet} ELSE Queries)
    \cup (IF "blank" \in env_faults THEN BlankTexts ELSE {})

understand ==
    /\ pipeline.stage = "query"
    /\ pipeline' = [pipeline EXCEPT !.stage = "understood",
                                    !.query_attrs = understand_query(pipeline.query)]
    /\ UNCHANGED <<store_vars, item_metadata>>

gate ==
    /\ pipeline.stage = "understood"
    /\ LET g == gate_candidates(pipeline.candidate_item_ids, pipeline.query_attrs,
                                item_metadata)
       IN pipeline' = [pipeline EXCEPT !.stage = "gated",
                                       !.passed_items = g.passed_items,
                                       !.gating_results = g.gating_results]
    /\ UNCHANGED <<store_vars, item_metadata>>

rerank ==
    /\ pipeline.stage = "gated"
    /\ pipeline' = [pipeline EXCEPT !.stage = "ranked",
                       !.ranked = rerank_items(pipeline.passed_items,
                                               pipeline.query_attrs,
                                               pipeline.semantic_scores,
                                               item_metadata,
                                               pipeline.gating_results)]
    /\ UNCHANGED <<store_vars, item_metadata>>

\* ------------------------------------------------------------------ search
\* The inner products faiss_index.search reports: one below the threshold and
\* one above it, or two above it where the order of the results is followed.
Distances == IF "scores" \in env_faults THEN {2, 4, 5} ELSE ScoreLevels

RECURSIVE Ranked(_, _)
\* faiss_index.search: the ordinals by descending score.
Ranked(ords, score) ==
    IF ords = {} THEN <<>>
    ELSE LET best == CHOOSE o \in ords :
                        \A x \in ords : \/ score[o + 1] > score[x + 1]
                                        \/ score[o + 1] = score[x + 1] /\ o <= x
         IN <<best>> \o Ranked(ords \ {best}, score)

RECURSIVE Collect(_, _, _, _, _)
RECURSIVE Collect_unfiltered(_, _, _, _, _)
\* Collect without the threshold.
Collect_unfiltered(hits, score, m, top_k, item_ids) ==
    IF hits = <<>> \/ Len(item_ids) >= top_k THEN item_ids
    ELSE LET idx == Head(hits) IN
         IF idx \in Keys(m)
         THEN Collect_unfiltered(Tail(hits), score, m, top_k, Append(item_ids, Get(m, idx)))
         ELSE Collect_unfiltered(Tail(hits), score, m, top_k, item_ids)

\* The loop of search_embedding over (indices[0], distances[0]).
Collect(hits, score, m, top_k, item_ids) ==
    IF hits = <<>> \/ Len(item_ids) >= top_k THEN item_ids
    ELSE LET idx == Head(hits) IN
         IF idx \in Keys(m) /\ score[idx + 1] >= SIMILARITY_THRESHOLD
         THEN Collect(Tail(hits), score, m, top_k, Append(item_ids, Get(m, idx)))
         ELSE Collect(Tail(hits), score, m, top_k, item_ids)

SearchK(top_k, n) == Min(Max(top_k * 3, top_k + 50), n)

\* search_with_filters: k = min(top_k * 3, faiss_index.ntotal)
FilterSearchK(top_k, n) == Min(top_k * 3, n)

\* HNSW_EF_SEARCH, by default
HNSW_EF_SEARCH == 128

\* faiss_index.hnsw.efSearch = max(HNSW_EF_SEARCH, k * 2)
EfSearch(k) == Max(HNSW_EF_SEARCH, k * 2)

\* The top_k values and index counts of the search calls that are followed.
MaxCallTopK == 24
MaxCallCount == 70

\* The three search handlers.
SearchPaths == {"search", "search_image", "search_filters"}

\* A search request that has reached a non-empty index.
SearchCalls ==
    {[NoSearchCall EXCEPT !.stage = "request", !.path = path, !.top_k = top_k,
                          !.ntotal = n] :
        path \in SearchPaths, top_k \in 1..MaxCallTopK, n \in 1..MaxCallCount}

\* The handler computes k, sets efSearch on an HNSW index (a Flat index has
\* none: 0) and calls faiss_index.search.
faiss_search ==
    /\ search_call.stage = "request"
    /\ LET c == search_call
           k == IF c.path = "search_filters" THEN FilterSearchK(c.top_k, c.ntotal)
                ELSE SearchK(c.top_k, c.ntotal)
       IN search_call' = [c EXCEPT !.stage = "searched", !.k = k,
                                   !.efSearch = IF index_type = "HNSW"
                                                THEN EfSearch(k) ELSE 0]
    /\ UNCHANGED <<locking, embedding_cache, embed_call, item_metadata, pipeline, faiss_lock, search_thread, index_type, workers, env_faults, unsaved, faiss_index,
                   id_mapping, pending_save_count, disk, flock, pc, req, resp, found,
                   snap, gone, assigned, dirty, live>>

RECURSIVE CollectScores(_, _, _, _, _)
\* The scores list built by the same loop, one score per collected item_id.
CollectScores(hits, score, m, top_k, scores) ==
    IF hits = <<>> \/ Len(scores) >= top_k THEN scores
    ELSE LET idx == Head(hits) IN
         IF idx \in Keys(m) /\ score[idx + 1] >= SIMILARITY_THRESHOLD
         THEN CollectScores(Tail(hits), score, m, top_k, Append(scores, score[idx + 1]))
         ELSE CollectScores(Tail(hits), score, m, top_k, scores)

\* An early return that never happens.
EmptyIndex_never(ix) == FALSE

\* `faiss_index is None or faiss_index.ntotal == 0`: the early return of the
\* search handlers.
EmptyIndex(ix) == ntotal(ix) = 0

\* What a search handler answers once the query vector is computed.
SearchHits(p, name, top_k, score) ==
    LET ix == faiss_index[p]
        k == SearchK(top_k, ntotal(ix))
        hits == SubSeq(Ranked(Ordinals(ix), score), 1, k)
    IN IF EmptyIndex(ix)
       THEN [NoResp EXCEPT !.op = name, !.status = 200]
       ELSE [NoResp EXCEPT !.op = name, !.status = 200, !.top_k = top_k,
                !.item_ids = Collect(hits, score, id_mapping[p], top_k, <<>>),
                !.scores = CollectScores(hits, score, id_mapping[p], top_k, <<>>)]

\* What it answers when the query vector cannot be computed: the exception
\* is met only past the early return.
SearchFailure(p, name, failure) ==
    IF EmptyIndex(faiss_index[p])
    THEN [NoResp EXCEPT !.op = name, !.status = 200]
    ELSE [NoResp EXCEPT !.op = name, !.status = failure]

\* `not raw_query or not raw_query.strip()`
QueryMissing(raw_query) == raw_query = <<>> \/ strip(raw_query) = <<>>

\* search_embedding: the query is required; past that check the query that
\* is embedded is never empty (preprocess_text's result, or raw_query.strip()
\* when that is empty).
search_embedding(p) ==
    /\ pc[p] = "idle"
    /\ \/ \E top_k \in 1..MaxTopK, query \in SentQueries,
             score \in [1..ntotal(faiss_index[p]) -> Distances] :
             IF QueryMissing(query)
             THEN Respond(p, [NoResp EXCEPT !.op = "search", !.status = 400,
                                            !.query = query])
             ELSE Respond(p, [SearchHits(p, "search", top_k, score)
                                 EXCEPT !.query = query])
       \/ \E query \in {q \in SentQueries : ~QueryMissing(q)} :
             Respond(p, [SearchFailure(p, "search", 500) EXCEPT !.query = query])
    /\ snap' = NoSnap
    /\ UNCHANGED <<call_vars, item_metadata, pipeline, faiss_lock, search_thread, index_type, workers, env_faults, unsaved, faiss_index, id_mapping,
                   pending_save_count, disk, flock, gone, assigned, dirty, live>>

\* search_by_image: an empty caption is a ValueError answered with 400, any
\* other failure of the embedding with 500.
search_by_image(p) ==
    /\ pc[p] = "idle"
    /\ \/ \E top_k \in 1..MaxTopK,
             score \in [1..ntotal(faiss_index[p]) -> Distances] :
             Respond(p, SearchHits(p, "search_image", top_k, score))
       \/ \E failure \in {400, 500} :
             Respond(p, SearchFailure(p, "search_image", failure))
    /\ snap' = NoSnap
    /\ UNCHANGED <<call_vars, item_metadata, pipeline, faiss_lock, search_thread, index_type, workers, env_faults, unsaved, faiss_index, id_mapping,
                   pending_save_count, disk, flock, gone, assigned, dirty, live>>

\* The search thread up to faiss_index.search: it takes no lock, returns on
\* an empty index, and otherwise holds the k best ordinals.
search_index(p) ==
    /\ Threaded
    /\ pc[p] # "down"
    /\ search_thread[p].pc = "idle"
    /\ LET ix == faiss_index[p] IN
       \E top_k \in 1..MaxTopK, score \in [1..ntotal(ix) -> Distances] :
          search_thread' = [search_thread EXCEPT ![p] =
             IF EmptyIndex(ix) THEN NoSearch
             ELSE [NoSearch EXCEPT !.pc = "hits", !.top_k = top_k, !.score = score,
                      !.hits = SubSeq(Ranked(Ordinals(ix), score), 1,
                                      SearchK(top_k, ntotal(ix)))]]
    /\ UNCHANGED <<call_vars, item_metadata, pipeline, faiss_lock, index_type, workers, env_faults, unsaved, faiss_index,
                   id_mapping, pending_save_count, disk, flock, pc, req, resp, found,
                   snap, gone, assigned, dirty, live>>

\* The search thread's loop over the hits: each ordinal is looked up in
\* id_mapping, an ordinal that is not there is skipped.
search_mapping(p) ==
    /\ search_thread[p].pc = "hits"
    /\ LET t == search_thread[p] IN
       search_thread' = [search_thread EXCEPT ![p] =
          [t EXCEPT !.pc = "idle",
                    !.item_ids = Collect(t.hits, t.score, id_mapping[p], t.top_k, <<>>)]]
    /\ UNCHANGED <<call_vars, item_metadata, pipeline, faiss_lock, index_type, workers, env_faults, unsaved, faiss_index,
                   id_mapping, pending_save_count, disk, flock, pc, req, resp, found,
                   snap, gone, assigned, dirty, live>>

\* --------------------------------------------------------- embedding cache
\* EMBEDDING_CACHE_SIZE, scaled down from 1000.
EMBEDDING_CACHE_SIZE == 2

\* The texts, the length of the batches and the number of stores followed;
\* thread 1 calls either function, the other threads call
\* create_embedding_vector with the cache.
CacheTexts == {<<" ">>, <<"a">>, <<"b">>, <<"c">>}
MaxBatchTexts == 2
MaxInserts == 3

\* `not text or not text.strip()`
IsBlankText(text) == text = <<>> \/ strip(text) = <<>>

\* hashlib.md5(text.encode('utf-8')).hexdigest(): one key per text.
_get_text_hash(text) == text

\* A numpy array: which array it is, and the text whose embedding it holds.
\* None is no array.
None == [id |-> [owner |-> 0, slot |-> 0], of |-> <<>>]

\* What a caller writes into an array it was given.
Scribble == <<"?">>

\* The name of a new array: the n-th array made for thread t's call, or (for
\* owner 0) the array made for the n-th store of the cache.
ArrayId(owner, n) == [owner |-> owner, slot |-> n]

\* model.encode(...)[i]: a new array holding the embedding of the text.
Encode(text, id) == [id |-> id, of |-> text]

\* ndarray.copy(): a new array with the same contents.
copy(array, id) == [array EXCEPT !.id = id]

\* The position of a key in the cache, 0 when it is not there.
CacheIndex(entries, key) ==
    IF \E i \in 1..Len(entries) : entries[i].key = key
    THEN CHOOSE i \in 1..Len(entries) : entries[i].key = key
    ELSE 0

\* How many of the texts are not blank and not in the cache.
Misses(entries, texts) ==
    Cardinality({i \in 1..Len(texts) :
                    /\ ~IsBlankText(texts[i])
                    /\ CacheIndex(entries, _get_text_hash(texts[i])) = 0})

\* The key stored last.
OldestKey_newest(entries) == entries[Len(entries)].key

\* oldest_key = next(iter(_embedding_cache)): a dict iterates in insertion
\* order.
OldestKey(entries) == entries[1].key

\* The cache store of both functions: at EMBEDDING_CACHE_SIZE entries the
\* oldest key is deleted; then the key is assigned (an existing key keeps its
\* place).
Store(cache, key, array) ==
    LET kept == IF Len(cache.entries) >= EMBEDDING_CACHE_SIZE
                THEN SelectSeq(cache.entries,
                               LAMBDA e : e.key # OldestKey(cache.entries))
                ELSE cache.entries
        at == CacheIndex(kept, key)
    IN [entries |-> IF at # 0 THEN [kept EXCEPT ![at].vec = array]
                    ELSE Append(kept, [key |-> key, vec |-> array,
                                       born |-> cache.inserts + 1]),
        inserts |-> cache.inserts + 1]

RECURSIVE StoreAll(_, _, _)
\* for text, embedding in zip(uncached_texts, embeddings): the store of a
\* copy of each embedding.
StoreAll(cache, texts, embeddings) ==
    IF texts = <<>> THEN cache
    ELSE StoreAll(Store(cache, _get_text_hash(Head(texts)),
                        copy(Head(embeddings), ArrayId(0, cache.inserts + 1))),
                  Tail(texts), Tail(embeddings))

\* uncached_indices of the call without cache: list(range(len(uncached_texts)))
RangeIndices(uncached_texts) == [i \in 1..Len(uncached_texts) |-> i - 1]

RECURSIVE MapResults(_, _, _)
\* for idx, embedding in zip(uncached_indices, embeddings):
\*     cached_embeddings[idx] = embedding
MapResults(cached_embeddings, uncached_indices, embeddings) ==
    IF uncached_indices = <<>> \/ embeddings = <<>> THEN cached_embeddings
    ELSE MapResults(Put(cached_embeddings, Head(uncached_indices), Head(embeddings)),
                    Tail(uncached_indices), Tail(embeddings))

\* result.append(cached_embeddings[i]) if i in cached_embeddings else None
OriginalOrder(texts, cached_embeddings) ==
    [i \in 1..Len(texts) |->
        IF (i - 1) \in Keys(cached_embeddings) THEN Get(cached_embeddings, i - 1)
        ELSE None]

\* The function returns to its caller.
Return(c, result, raised) ==
    [c EXCEPT !.stage = "returned", !.result = result, !.raised = raised,
              !.cached_embeddings = {}, !.uncached_texts = <<>>,
              !.uncached_indices = <<>>, !.idx = 0]

\* A thread calls create_embedding_vector(text, use_cache) or
\* create_embedding_vectors_batch(texts, use_cache), up to the first look at
\* the cache: the ValueError for a blank text, [] for no texts, the lists of
\* the call without cache.
embed_begin(t) ==
    /\ embed_call[t].stage \in {"idle", "returned", "mutated"}
    /\ \E op \in {"vector", "batch"}, use_cache \in BOOLEAN,
          texts \in SeqsUpTo(CacheTexts, MaxBatchTexts) :
          /\ (op = "vector") => (Len(texts) = 1)
          /\ (t # 1) => (op = "vector" /\ use_cache)
          /\ embedding_cache.inserts + Misses(embedding_cache.entries, texts) <= MaxInserts
          /\ LET c == [NoEmbedCall EXCEPT !.op = op, !.texts = texts,
                                          !.use_cache = use_cache]
                 nonblank == SelectSeq(texts, LAMBDA x : ~IsBlankText(x))
             IN embed_call' = [embed_call EXCEPT ![t] =
                   IF op = "vector" /\ IsBlankText(texts[1]) THEN Return(c, <<>>, TRUE)
                   ELSE IF op = "batch" /\ texts = <<>> THEN Return(c, <<>>, FALSE)
                   ELSE IF use_cache THEN [c EXCEPT !.stage = "check"]
                   ELSE [c EXCEPT !.stage = "encode",
                                  !.uncached_texts = nonblank,
                                  !.uncached_indices = RangeIndices(nonblank)]]
    /\ UNCHANGED <<embedding_cache, search_call, locking, store_rest, item_metadata, pipeline>>

\* One look at the cache under _embedding_cache_lock: a hit gives a copy of
\* the cached array.  create_embedding_vector returns it; the batch goes on
\* to its next text.
cache_check(t) ==
    /\ embed_call[t].stage = "check"
    /\ LET c == embed_call[t]
           text == c.texts[c.idx + 1]
           at == CacheIndex(embedding_cache.entries, _get_text_hash(text))
           hit == copy(embedding_cache.entries[at].vec, ArrayId(t, c.idx + 1))
           next == [c EXCEPT !.idx = @ + 1,
                      !.stage = IF c.idx + 1 = Len(c.texts) THEN "encode" ELSE "check"]
       IN embed_call' = [embed_call EXCEPT ![t] =
             IF c.op = "vector"
             THEN IF at # 0 THEN [Return(c, <<hit>>, FALSE) EXCEPT !.hit = TRUE]
                  ELSE [c EXCEPT !.stage = "encode", !.uncached_texts = <<text>>]
             ELSE IF IsBlankText(text)
                  THEN [next EXCEPT !.cached_embeddings = Put(@, c.idx, None)]
             ELSE IF at # 0
                  THEN [next EXCEPT !.cached_embeddings = Put(@, c.idx, hit)]
             ELSE [next EXCEPT !.uncached_texts = Append(@, text),
                               !.uncached_indices = Append(@, c.idx)]]
    /\ UNCHANGED <<embedding_cache, search_call, locking, store_rest, item_metadata, pipeline>>

\* model.encode of the texts left, the store of a copy of each embedding
\* under _embedding_cache_lock when the cache is used, and the return.
encode_and_store(t) ==
    /\ embed_call[t].stage = "encode"
    /\ LET c == embed_call[t]
           n == Len(c.uncached_texts)
           slot(i) == IF c.op = "vector" THEN 1 ELSE c.uncached_indices[i] + 1
           embeddings == [i \in 1..n |-> Encode(c.uncached_texts[i], ArrayId(t, slot(i)))]
       IN /\ embedding_cache' =
                IF c.use_cache
                THEN StoreAll(embedding_cache, c.uncached_texts, embeddings)
                ELSE embedding_cache
          /\ embed_call' = [embed_call EXCEPT ![t] =
                IF c.op = "vector" THEN Return(c, embeddings, FALSE)
                ELSE Return(c, OriginalOrder(c.texts,
                                   MapResults(c.cached_embeddings,
                                              c.uncached_indices, embeddings)),
                            FALSE)]
    /\ UNCHANGED <<search_call, locking, store_rest, item_metadata, pipeline>>

\* The caller writes into every array it was given and lets go of them;
\* whoever holds the same array sees it.
caller_mutates(t) ==
    /\ embed_call[t].stage = "returned"
    /\ embed_call[t].result # <<>>
    /\ LET mine == {embed_call[t].result[i].id : i \in 1..Len(embed_call[t].result)} \ {None.id}
           written(a) == IF a.id \in mine THEN [a EXCEPT !.of = Scribble] ELSE a
       IN /\ mine # {}
          /\ embedding_cache' = [embedding_cache EXCEPT !.entries =
                [i \in 1..Len(@) |-> [@[i] EXCEPT !.vec = written(@)]]]
          /\ embed_call' = [u \in EmbedThreads |->
                [embed_call[u] EXCEPT
                    !.stage = IF u = t THEN "mutated" ELSE @,
                    !.result = IF u = t THEN <<>> ELSE [i \in 1..Len(@) |-> written(@[i])],
                    !.cached_embeddings = {<<e[1], written(e[2])>> : e \in @}]]
    /\ UNCHANGED <<search_call, locking, store_rest, item_metadata, pipeline>>

\* ------------------------------------------------------------------- locks
\* The lock operations of save_faiss(): `with open(lock_file_path, 'w')`,
\* flock(LOCK_EX), and LOCK_UN in the finally clause.
SaveFaissLocks == <<<<"acquire", "file">>, <<"release", "file">>>>

\* The add step of create_embedding and of process_item: flock(LOCK_EX), then
\* `with _faiss_lock`, which ends before the finally clause unlocks the file.
AddStepLocks ==
    <<<<"acquire", "file">>, <<"acquire", "mem">>,
      <<"release", "mem">>, <<"release", "file">>>>

\* `with _faiss_lock:` on its own.
FaissLockBlock == <<<<"acquire", "mem">>, <<"release", "mem">>>>

RECURSIVE Repeat(_, _)
Repeat(seq, n) == IF n = 0 THEN <<>> ELSE seq \o Repeat(seq, n - 1)

\* create_embedding: the add step, and save_faiss() when should_save.
CreateLocks == {AddStepLocks, AddStepLocks \o SaveFaissLocks}

\* create_embeddings_batch: the add step of every item that gets that far,
\* the reset of the pending counter under _faiss_lock, save_faiss().
BatchLocks ==
    {Repeat(AddStepLocks, n) \o FaissLockBlock \o SaveFaissLocks : n \in 0..MaxBatchItems}

\* A delete whose save_faiss() runs inside `with _faiss_lock`.
DeleteLocks_nested ==
    {FaissLockBlock,
     <<<<"acquire", "mem">>>> \o SaveFaissLocks \o <<<<"release", "mem">>>>}

\* delete_embedding: the lookup and the removal under _faiss_lock; the return
\* for an unknown id leaves the block, save_faiss() comes after it.
DeleteLocks == {FaissLockBlock, FaissLockBlock \o SaveFaissLocks}

\* sync_faiss_with_db: no lock when there is nothing to remove; otherwise the
\* removals under _faiss_lock, then save_faiss().
SyncLocks == {<<>>, FaissLockBlock \o SaveFaissLocks}

\* The lock operations a request may go through, by handler.
LockPrograms ==
    [create |-> CreateLocks, batch |-> BatchLocks, delete |-> DeleteLocks,
     sync |-> SyncLocks, persist |-> {SaveFaissLocks}]

ProcessOf(t) == t[1]

\* The threads that hold a lock: .faiss_lock excludes every other open file
\* description, in this process or another; _faiss_lock is per process.
HoldersOf(l, t) ==
    {u \in LockThreads : /\ \E i \in 1..Len(locking.held[u]) : locking.held[u][i] = l
                         /\ l = "mem" => ProcessOf(u) = ProcessOf(t)}

\* Thread t can carry out its next lock operation.
CanStep(t) ==
    /\ locking.rest[t] # <<>>
    /\ LET ins == Head(locking.rest[t])
       IN ins[1] = "acquire" => HoldersOf(ins[2], t) = {}

\* A request reaches thread t.
lock_begin(t) ==
    /\ locking.op[t] = "none"
    /\ \E name \in DOMAIN LockPrograms :
       \E program \in LockPrograms[name] :
          locking' = [locking EXCEPT !.op[t] = IF program = <<>> THEN "none" ELSE name,
                                     !.rest[t] = program]
    /\ UNCHANGED <<search_call, embedding_cache, embed_call, store_rest, item_metadata, pipeline>>

\* Thread t acquires or releases the next lock of its handler; after the
\* last one the handler returns.
lock_step(t) ==
    /\ CanStep(t)
    /\ LET ins == Head(locking.rest[t])
           rest == Tail(locking.rest[t])
           held == IF ins[1] = "acquire" THEN Append(locking.held[t], ins[2])
                   ELSE SelectSeq(locking.held[t], LAMBDA l : l # ins[2])
       IN locking' = [locking EXCEPT !.rest[t] = rest, !.held[t] = held,
                                     !.op[t] = IF rest = <<>> THEN "none" ELSE @]
    /\ UNCHANGED <<search_call, embedding_cache, embed_call, store_rest, item_metadata, pipeline>>

\* ------------------------------------------------------------ specification
InitStore(ws, faults) ==
    /\ index_type \in IndexTypes
    /\ workers = ws
    /\ env_faults = faults
    /\ faiss_index = [p \in Procs |-> NoIndex]
    /\ id_mapping = [p \in Procs |-> {}]
    /\ pending_save_count = [p \in Procs |-> 0]
    /\ disk = NoDisk
    /\ flock = 0
    /\ pc = [p \in Procs |-> "down"]
    /\ req = [p \in Procs |-> NoReq]
    /\ resp = [p \in Procs |-> NoResp]
    /\ found = [p \in Procs |-> NoFound]
    /\ snap = NoSnap
    /\ gone = [p \in Procs |-> {}]
    /\ assigned = [p \in Procs |-> {}]
    /\ dirty = [p \in Procs |-> FALSE]
    /\ live = {}
    /\ unsaved = [p \in Procs |-> 0]
    /\ faiss_lock = [p \in Procs |-> 0]
    /\ search_thread = [p \in Procs |-> NoSearch]

\* The store alone: no item metadata is followed, no pipeline is run.
InitWith(ws, faults) ==
    /\ InitStore(ws, faults)
    /\ search_call = NoSearchCall
    /\ locking = NoLocking
    /\ embedding_cache = NoCache
    /\ embed_call = [t \in EmbedThreads |-> NoEmbedCall]
    /\ item_metadata = <<>>
    /\ pipeline = NoPipeline

\* One worker that stays up; the disk may run low and file operations fail.
Init == InitWith({1}, {"disk", "client"})

Next ==
    \E p \in workers :
       \/ initialize_faiss(p)
       \/ create_embedding(p)
       \/ add_vector(p)
       \/ create_embeddings_batch(p)
       \/ batch_next(p)
       \/ save_write_temp(p)
       \/ save_backup(p)
       \/ save_move_index(p)
       \/ save_move_mapping(p)
       \/ save_verify(p)
       \/ delete_embedding(p)
       \/ delete_remove(p)
       \/ sync_faiss_with_db(p)
       \/ sync_remove(p)
       \/ search_embedding(p)

Spec == Init /\ [][Next]_vars

\* One worker that may die at any point and is started again, over files
\* that may be cut short behind its back.
InitCrash == InitWith({1}, {"disk", "rename", "crash"})

NextCrash ==
    \/ \E p \in workers :
          \/ initialize_faiss(p)
          \/ create_embeddings_batch(p)
          \/ batch_next(p)
          \/ add_vector(p)
          \/ save_write_temp(p)
          \/ save_backup(p)
          \/ save_move_index(p)
          \/ save_move_mapping(p)
          \/ save_verify(p)
          \/ delete_embedding(p)
          \/ delete_remove(p)
          \/ Crash(p)
    \/ TruncateIndexFile

SpecCrash == InitCrash /\ [][NextCrash]_vars

\* Two workers on one storage directory, in an environment that does not fail.
InitMP == InitWith({1, 2}, {})

NextMP ==
    \E p \in workers :
       \/ initialize_faiss(p)
       \/ create_embeddings_batch(p)
       \/ batch_next(p)
       \/ add_vector(p)
       \/ save_write_temp(p)
       \/ save_backup(p)
       \/ save_move_index(p)
       \/ save_move_mapping(p)
       \/ save_verify(p)
       \/ delete_embedding(p)
       \/ delete_remove(p)

SpecMP == InitMP /\ [][NextMP]_vars

\* One worker that stays up and is sent well-formed single registrations and
\* deletes, on a disk that may run low.
InitSingle == InitWith({1}, {"disk"})

NextSingle ==
    \E p \in workers :
       \/ initialize_faiss(p)
       \/ create_embedding(p)
       \/ add_vector(p)
       \/ save_write_temp(p)
       \/ save_backup(p)
       \/ save_move_index(p)
       \/ save_move_mapping(p)
       \/ save_verify(p)
       \/ delete_embedding(p)
       \/ delete_remove(p)

SpecSingle == InitSingle /\ [][NextSingle]_vars

\* One worker whose disk may fail: registrations and reconciliations with the
\* database.
InitSync == InitWith({1}, {"disk"})

NextSync ==
    \E p \in workers :
       \/ initialize_faiss(p)
       \/ create_embedding(p)
       \/ add_vector(p)
       \/ save_write_temp(p)
       \/ save_backup(p)
       \/ save_move_index(p)
       \/ save_move_mapping(p)
       \/ save_verify(p)
       \/ sync_faiss_with_db(p)
       \/ sync_remove(p)

SpecSync == InitSync /\ [][NextSync]_vars

\* One worker sent requests whose text fields may be left out or blank:
\* registrations, deletes and text searches.
InitBlank == InitWith({1}, {"blank"})

NextBlank ==
    \E p \in workers :
       \/ initialize_faiss(p)
       \/ create_embedding(p)
       \/ add_vector(p)
       \/ save_write_temp(p)
       \/ save_backup(p)
       \/ save_move_index(p)
       \/ save_move_mapping(p)
       \/ save_verify(p)
       \/ delete_embedding(p)
       \/ delete_remove(p)
       \/ search_embedding(p)

SpecBlank == InitBlank /\ [][NextBlank]_vars

\* One process run by `python app.py`: the development server gives each
\* request a thread, here one that registers and one that searches.
InitThreaded == InitWith({1}, {"threads"})

NextThreaded ==
    \E p \in workers :
       \/ initialize_faiss(p)
       \/ create_embedding(p)
       \/ faiss_add(p)
       \/ store_mapping(p)
       \/ search_index(p)
       \/ search_mapping(p)

SpecThreaded == InitThreaded /\ [][NextThreaded]_vars

\* One worker without faults whose searches meet two distinct scores above
\* the threshold: registrations, deletes and the two searches.
InitRanked == InitWith({1}, {"scores"})

NextRanked ==
    \E p \in workers :
       \/ initialize_faiss(p)
       \/ create_embedding(p)
       \/ add_vector(p)
       \/ save_write_temp(p)
       \/ save_backup(p)
       \/ save_move_index(p)
       \/ save_move_mapping(p)
       \/ save_verify(p)
       \/ delete_embedding(p)
       \/ delete_remove(p)
       \/ search_embedding(p)
       \/ search_by_image(p)

SpecRanked == InitRanked /\ [][NextRanked]_vars

\* The request threads of two processes: the locks each handler takes.
InitLocks ==
    /\ InitStore({}, {})
    /\ item_metadata = <<>>
    /\ pipeline = NoPipeline
    /\ search_call = NoSearchCall
    /\ locking = NoLocking
    /\ embedding_cache = NoCache
    /\ embed_call = [t \in EmbedThreads |-> NoEmbedCall]

NextLocks == \E t \in LockThreads : lock_begin(t) \/ lock_step(t)

SpecLocks == InitLocks /\ [][NextLocks]_vars

\* The embedding functions called from threads that share the cache.
InitCache ==
    /\ InitStore({}, {})
    /\ item_metadata = <<>>
    /\ pipeline = NoPipeline
    /\ search_call = NoSearchCall
    /\ locking = NoLocking
    /\ embedding_cache = NoCache
    /\ embed_call = [t \in EmbedThreads |-> NoEmbedCall]

NextCache ==
    \E t \in EmbedThreads :
       \/ embed_begin(t)
       \/ cache_check(t)
       \/ encode_and_store(t)
       \/ caller_mutates(t)

SpecCache == InitCache /\ [][NextCache]_vars

\* The faiss_index.search call of each search handler, for every top_k and
\* index count followed.
InitCall ==
    /\ InitStore({}, {})
    /\ item_metadata = <<>>
    /\ pipeline = NoPipeline
    /\ search_call \in SearchCalls
    /\ locking = NoLocking
    /\ embedding_cache = NoCache
    /\ embed_call = [t \in EmbedThreads |-> NoEmbedCall]

NextCall == faiss_search

SpecCall == InitCall /\ [][NextCall]_vars

\* One worker without faults: registrations, deletes and the two searches.
InitSearch ==
    /\ InitStore({1}, {})
    /\ search_call = NoSearchCall
    /\ locking = NoLocking
    /\ embedding_cache = NoCache
    /\ embed_call = [t \in EmbedThreads |-> NoEmbedCall]
    /\ item_metadata \in Catalogues
    /\ pipeline = NoPipeline

NextSearch ==
    \E p \in workers :
       \/ initialize_faiss(p)
       \/ create_embedding(p)
       \/ add_vector(p)
       \/ save_write_temp(p)
       \/ save_backup(p)
       \/ save_move_index(p)
       \/ save_move_mapping(p)
       \/ save_verify(p)
       \/ delete_embedding(p)
       \/ delete_remove(p)
       \/ search_embedding(p)
       \/ search_by_image(p)

SpecSearch == InitSearch /\ [][NextSearch]_vars

\* The stages of the query pipeline on their own, applied to every input.
InitGating ==
    /\ InitStore({}, {})
    /\ search_call = NoSearchCall
    /\ locking = NoLocking
    /\ embedding_cache = NoCache
    /\ embed_call = [t \in EmbedThreads |-> NoEmbedCall]
    /\ index_type = "Flat"
    /\ item_metadata \in MetadataMaps
    /\ pipeline \in PipelineInputs

NextGating == understand \/ gate \/ rerank

SpecGating == InitGating /\ [][NextGating]_vars

\* Two workers that start while batches are being registered: the retry loop
\* of initialize_faiss() step by step.  Every step of a worker is taken in the
\* end; the blocking flock is granted in the end if the lock keeps being
\* released.
NextStartup ==
    \E p \in workers :
       \/ init_try_lock(p)
       \/ init_block_lock(p)
       \/ init_load(p)
       \/ create_embeddings_batch(p)
       \/ batch_next(p)
       \/ add_vector(p)
       \/ save_write_temp(p)
       \/ save_backup(p)
       \/ save_move_index(p)
       \/ save_move_mapping(p)
       \/ save_verify(p)

FairStartup ==
    \A p \in Procs :
       /\ WF_vars(init_try_lock(p))
       /\ SF_vars(init_block_lock(p))
       /\ WF_vars(init_load(p))
       /\ WF_vars(batch_next(p))
       /\ WF_vars(add_vector(p))
       /\ WF_vars(save_write_temp(p))
       /\ WF_vars(save_backup(p))
       /\ WF_vars(save_move_index(p))
       /\ WF_vars(save_move_mapping(p))
       /\ WF_vars(save_verify(p))

SpecStartup == InitMP /\ [][NextStartup]_vars /\ FairStartup

\* Two workers that stay up: batch registrations, which are persisted, and
\* searches by text.  Every worker goes on with what it has begun and goes
\* on serving searches.
NextVisible ==
    \E p \in workers :
       \/ init_try_lock(p)
       \/ init_block_lock(p)
       \/ init_load(p)
       \/ create_embeddings_batch(p)
       \/ batch_next(p)
       \/ add_vector(p)
       \/ save_write_temp(p)
       \/ save_backup(p)
       \/ save_move_index(p)
       \/ save_move_mapping(p)
       \/ save_verify(p)
       \/ search_embedding(p)

FairVisible ==
    /\ FairStartup
    /\ \A p \in Procs : WF_vars(search_embedding(p))

SpecVisible == InitMP /\ [][NextVisible]_vars /\ FairVisible

\* ------------------------------------------------------------------ claims
\* The handlers that register, delete or reconcile.
MutatingOps == {"create", "batch", "delete", "sync"}

\* C1 (as stated): after each register, delete or sync operation completes,
\* faiss_index.ntotal equals the number of entries of id_mapping, for both
\* index kinds and any item_id.
C1_CountEqualsMappingSize ==
    \A p \in workers :
       pc[p] = "idle" /\ resp[p].op \in MutatingOps
          => ntotal(faiss_index[p]) = Cardinality(id_mapping[p])

\* C2 (as stated): save_faiss() followed by initialize_faiss() in a fresh
\* process yields the count and the ordinal -> id mapping that were saved.
\* snap is the save that went through last with nothing done since.
C2_SaveThenLoadRestores ==
    \A p \in workers :
       pc[p] = "idle" /\ resp[p].op = "init" /\ snap.valid /\ snap.done
          => /\ ntotal(faiss_index[p]) = ntotal(snap.index)
             /\ id_mapping[p] = snap.mapping

C4_CrashLeavesWholeSnapshot ==
    \A p \in workers :
       pc[p] = "down" /\ snap.valid /\ ~snap.done
          => ActivePair(disk) \in {snap.prev, SnapshotOf(snap.index, snap.mapping)}

\* C5 (as stated): every snapshot that save_faiss() has moved into the
\* active paths is non-empty and consistent: the persisted index count equals
\* the persisted mapping size.
C5_MovedSnapshotConsistent ==
    \A p \in workers :
       pc[p] = "save_verify"
          => /\ disk.idx.size > 0
             /\ ntotal(ReadIndex(disk.idx)) = Cardinality(PickleLoad(disk.map))

\* C6 (as stated): when initialize_faiss() meets a zero-length index file or
\* an index whose count differs from the mapping size, the store starts
\* empty and every snapshot file it met is kept under a .corrupted_ name.
C6_CorruptedSnapshotArchived ==
    \A p \in workers :
       pc[p] = "idle" /\ resp[p].op = "init" /\ (found[p].zero \/ found[p].mismatch)
          => /\ resp[p].status = 200
             /\ ntotal(faiss_index[p]) = 0 /\ id_mapping[p] = {}
             /\ found[p].idx => found[p].idx_archived
             /\ found[p].map => found[p].map_archived

\* Worker p is at a position where its handler changes the index, the mapping
\* or the snapshot files.
Mutating(p) ==
    \/ pc[p] \in {"add_cs", "sync_cs"} \cup SavePcs
    \/ pc[p] = "delete_cs" /\ IndicesOf(id_mapping[p], req[p].item_id) # {}

\* C7 (as stated): every mutating operation holds .faiss_lock for the whole
\* time it modifies the index or the mapping, so no two workers are inside a
\* mutation at once.
C7_MutationHoldsFileLock ==
    \A p \in workers :
       Mutating(p)
          => /\ flock = p
             /\ \A o \in workers \ {p} : ~Mutating(o)

\* C8 (as stated): with several workers on one storage directory, once every
\* worker has persisted, the durable snapshot holds every item registered by
\* any worker and no item deleted by any worker.
C8_SnapshotHoldsAllWorkersMutations ==
    (\A p \in workers : pc[p] = "idle" /\ ~dirty[p])
       => Values(PickleLoad(disk.map)) = live

\* C9: right after a successful register, the ordinal it reports is
\* ntotal - 1 and id_mapping holds the registered id under it: for
\* create_embedding when it returns, for an item of a batch when its
\* process_item returns.
C9_ReportedOrdinalIsLast ==
    \A p \in workers :
       /\ pc[p] = "idle" /\ resp[p].op = "create" /\ resp[p].status = 200
             => /\ resp[p].faiss_idx = ntotal(faiss_index[p]) - 1
                /\ <<resp[p].faiss_idx, resp[p].item_id>> \in id_mapping[p]
       /\ pc[p] = "batch_next" /\ req[p].results # <<>>
                               /\ req[p].results[Len(req[p].results)].success
             => LET r == req[p].results[Len(req[p].results)] IN
                /\ r.faiss_idx = ntotal(faiss_index[p]) - 1
                /\ <<r.faiss_idx, IntValue(req[p].form_id)>> \in id_mapping[p]

\* C9 witness: a create_embedding has succeeded on an index that a delete
\* had gone through before, and reports the second ordinal.
C9_Witness ==
    /\ pc[1] = "idle" /\ resp[1].op = "create" /\ resp[1].status = 200
    /\ resp[1].faiss_idx = 1 /\ gone[1] # {}

\* C10 (as stated): an add never takes an ordinal that an earlier add of the
\* live index was given.
C10_OrdinalsNeverReused ==
    \A p \in workers : ~req[p].reused /\ ~resp[p].reused

\* Worker p's handler returns in this step.
Returns(p) == pc[p] # "idle" /\ pc[p] # "down" /\ pc'[p] = "idle"

\* C11 (as stated): a register call that returns an error leaves the index
\* count, id_mapping and the durable snapshot as they were before the call.
C11_FailedRegisterChangesNothing ==
    [][\A p \in workers :
          Returns(p) /\ req[p].name \in {"create", "batch"} /\ resp'[p].status # 200
             => /\ ntotal(faiss_index'[p]) = req[p].before.ntotal
                /\ id_mapping'[p] = req[p].before.mapping
                /\ ActivePair(disk') = req[p].before.pair]_vars

\* The snapshot files as the save_faiss() of worker p met them.
PairBeforeSave(p) == IF pc[p] = "save" THEN ActivePair(disk) ELSE snap.prev

\* C12 (as stated): when save_faiss() raises, no .tmp file remains and the
\* active index and mapping files are the previous durable snapshot.
C12_FailedSaveKeepsPrevious ==
    [][\A p \in workers :
          Returns(p) /\ pc[p] \in {"save"} \cup SavePcs /\ resp'[p].status # 200
             => /\ ~Exists(disk'.idx_tmp) /\ ~Exists(disk'.map_tmp)
                /\ ActivePair(disk') = PairBeforeSave(p)]_vars

\* C13 (as stated): at every moment fewer than save_batch_size successful
\* single registrations of a worker are missing from the durable snapshot.
C13_UnsavedBelowBatchSize ==
    \A p \in workers : unsaved[p] < save_batch_size

\* C14: a create_embeddings_batch call that returns success has gone through
\* save_faiss() after its last item with the pending counter reset to 0, and
\* on return the snapshot files hold every item it reported as successful
\* under the ordinal it reported.
C14_BatchSuccessIsPersisted ==
    \A p \in workers :
       pc[p] = "idle" /\ resp[p].op = "batch" /\ resp[p].status = 200
          => /\ resp[p].saved
             /\ pending_save_count[p] = 0
             /\ \A i \in 1..Len(resp[p].results) :
                   LET r == resp[p].results[i] IN
                   r.success =>
                      /\ <<r.faiss_idx, r.item_id>> \in PickleLoad(disk.map)
                      /\ r.faiss_idx < ntotal(ReadIndex(disk.idx))

\* C14 witness: a batch of two items has returned success with both
\* registered, on a Flat index that a delete had compacted before.
C14_Witness ==
    /\ pc[1] = "idle" /\ resp[1].op = "batch" /\ resp[1].status = 200
    /\ Len(resp[1].results) = 2
    /\ \A i \in 1..2 : resp[1].results[i].success
    /\ index_type = "Flat" /\ gone[1] # {}

\* C15 (as stated): in create_embeddings_batch a failing item fails only that
\* item: the call returns only after every item was processed, with one
\* result per input item.
C15_FailingItemFailsAlone ==
    [][\A p \in workers :
          Returns(p) /\ req[p].name = "batch"
             => /\ req[p].items = <<>>
                /\ Len(req[p].results) = req[p].total
                /\ resp'[p].status = 200 => resp'[p].results = req[p].results]_vars

\* Worker p has left initialize_faiss().
Initialized(p) == pc[p] \notin {"down", "init_blocked", "init_locked"}

\* C16: initialize_faiss() makes at most max_retries non-blocking attempts at
\* the file lock and then blocks; as every holder releases the lock in the
\* end, every worker acquires it and finishes its initialization.
C16_StartupLockIsAcquired ==
    /\ [](\A p \in Procs : /\ req[p].retry <= max_retries
                           /\ pc[p] = "init_blocked" => req[p].retry = max_retries)
    /\ \A p \in Procs : <>Initialized(p)

\* C16 witness: worker 2 is initialized after all its non-blocking attempts
\* failed and the blocking acquire gave it the lock.
C16_Witness ==
    /\ pc[2] = "idle" /\ resp[2].op = "init" /\ req[2].retry = max_retries

\* C17: a search by text or by image on an index that holds no vector answers
\* success with empty item_ids and scores, whatever top_k and whether or not
\* the query could be embedded.
C17_EmptyIndexSearchSucceeds ==
    \A p \in workers :
       /\ pc[p] = "idle"
       /\ resp[p].op \in {"search", "search_image"}
       /\ ntotal(faiss_index[p]) = 0
       => /\ resp[p].status = 200
          /\ resp[p].item_ids = <<>>
          /\ resp[p].scores = <<>>

\* C17 witness: a search by image has answered on an index with no vector.
C17_Witness ==
    /\ pc[1] = "idle" /\ resp[1].op = "search_image"
    /\ ntotal(faiss_index[1]) = 0 /\ resp[1].status = 200

\* C18 (as stated): a search on an index that holds vectors, where fewer than
\* MIN_RESULTS_TO_RETURN candidates pass the similarity threshold, returns at
\* least min(MIN_RESULTS_TO_RETURN, top_k, number of mapped vectors) items.
C18_SearchBackfillsToFloor ==
    \A p \in workers :
       /\ pc[p] = "idle"
       /\ resp[p].op \in {"search", "search_image"}
       /\ resp[p].status = 200
       /\ ntotal(faiss_index[p]) > 0
       => Len(resp[p].item_ids) >=
             Min(Min(MIN_RESULTS_TO_RETURN, resp[p].top_k),
                 Cardinality(id_mapping[p]))

\* C19 (as stated): the items a search by text returns have passed the gate
\* for the attributes of the query, and they come in descending order of the
\* final score of the reranking.
C19_SearchIsGatedAndReranked ==
    \A p \in workers :
       /\ pc[p] = "idle"
       /\ resp[p].op = "search"
       /\ resp[p].status = 200
       => LET query_attrs == understand_query(resp[p].query)
              item_ids == resp[p].item_ids
              g == gate_candidates(item_ids, query_attrs, item_metadata)
              final(i) == final_score(item_ids[i], query_attrs,
                                      [c \in {item_ids[i]} |-> resp[p].scores[i]],
                                      item_metadata, g.gating_results)
          IN /\ g.passed_items = item_ids
             /\ \A i, j \in 1..Len(item_ids) : i < j => ~Above(final(j), final(i))

\* C20 (as stated): when the query attributes are the color black alone and
\* the text of a candidate yields the color white alone, gate_item reports
\* the candidate as not passed and gate_candidates leaves it out.
C20_ColorConflictVetoes ==
    pipeline.stage \in {"gated", "ranked"}
    => \A c \in Elements(pipeline.candidate_item_ids) \cap DOMAIN item_metadata :
          /\ pipeline.query_attrs.attributes
                = [NoAttributes EXCEPT !.color = <<"geomeunsaeg">>]
          /\ extract_attributes_from_text(ItemText(item_metadata[c]))
                = [NoAttributes EXCEPT !.color = <<"huinsaeg">>]
          => /\ ~pipeline.gating_results[c].passed
             /\ c \notin Elements(pipeline.passed_items)

\* The pipeline has gated its candidates.
Gated == pipeline.stage \in {"gated", "ranked"}

\* C21: gate_item sets passed exactly when penalty_score + attribute_bonus is
\* at least MIN_SCORE_TO_PASS (-40), for every candidate with metadata; and
\* gate_candidates returns the candidates that passed and those without
\* metadata, in their input order, and no failing candidate.
C21_GateKeepsExactlyThePassing ==
    Gated
    => LET candidates == pipeline.candidate_item_ids
           results == pipeline.gating_results
           passed_items == pipeline.passed_items
           Position(c) == CHOOSE i \in 1..Len(candidates) : candidates[i] = c
       IN /\ DOMAIN results = Elements(candidates) \cap DOMAIN item_metadata
          /\ \A c \in DOMAIN results :
                results[c].passed
                   <=> results[c].penalty_score + results[c].attribute_bonus >= -40
          /\ Elements(passed_items)
                = {c \in Elements(candidates) :
                      c \notin DOMAIN item_metadata \/ results[c].passed}
          /\ \A i, j \in 1..Len(passed_items) :
                i < j => Position(passed_items[i]) < Position(passed_items[j])

\* C21 witness: of two candidates with metadata the first was dropped and the
\* second kept.
C21_Witness ==
    /\ pipeline.stage = "gated"
    /\ Len(pipeline.candidate_item_ids) = 2
    /\ Elements(pipeline.candidate_item_ids) \subseteq DOMAIN item_metadata
    /\ pipeline.passed_items = <<pipeline.candidate_item_ids[2]>>

\* The kinds of attribute the dictionaries hold.
AttributeKinds == {"color", "pattern", "brand"}

\* The query of the pipeline has been understood.
Understood == pipeline.stage \in {"understood", "gated", "ranked"}

\* C22: for the attributes of the query and of every item with metadata, and
\* every kind, has_attribute_conflict is true exactly when both sides have
\* values and share none (so it is false when either side has none), and it
\* gives the same answer with query and item swapped.
C22_ConflictIsDisjointnessAndSymmetric ==
    Understood
    => \A c \in DOMAIN item_metadata, kind \in AttributeKinds :
          LET query_attrs == pipeline.query_attrs.attributes
              item_attrs == ItemAttributes(item_metadata[c])
              Q == Elements(query_attrs[kind])
              I == Elements(item_attrs[kind])
          IN /\ has_attribute_conflict(query_attrs, item_attrs, kind)
                   <=> (Q # {} /\ I # {} /\ Q \cap I = {})
             /\ has_attribute_conflict(query_attrs, item_attrs, kind)
                   <=> has_attribute_conflict(item_attrs, query_attrs, kind)

\* C22 witness: an item conflicts with the query on the color, and on the
\* pattern the query has a value and the item has none.
C22_Witness ==
    /\ Understood
    /\ \E c \in DOMAIN item_metadata :
          LET query_attrs == pipeline.query_attrs.attributes
              item_attrs == ItemAttributes(item_metadata[c])
          IN /\ has_attribute_conflict(query_attrs, item_attrs, "color")
             /\ query_attrs.pattern # <<>> /\ item_attrs.pattern = <<>>

\* Raw similarities in tenths: from below min_sim (0.3) to above max_sim
\* (0.95).
Similarities == 0..MaxSimilarity

\* C23: for every candidate rerank_items has scored, with its attribute
\* match, keyword overlap and gating bonus as they are, a larger raw
\* similarity never gives a smaller final score, below 0.3 and above 0.95
\* included; the score it was given is the one of its own similarity.
C23_FinalScoreMonotoneInSimilarity ==
    pipeline.stage = "ranked"
    => \A i \in 1..Len(pipeline.ranked) :
          LET c == pipeline.ranked[i].item_id
              known == c \in DOMAIN item_metadata
              attribute_match ==
                  IF known
                  THEN calculate_attribute_match_score(
                          pipeline.query_attrs.attributes,
                          ItemAttributes(item_metadata[c]))
                  ELSE 0
              keyword_overlap ==
                  IF known
                  THEN calculate_keyword_overlap(pipeline.query_attrs.keywords,
                                                 ItemText(item_metadata[c]))
                  ELSE [num |-> 0, den |-> 1]
              gating_bonus == IF c \in DOMAIN pipeline.gating_results
                              THEN pipeline.gating_results[c].attribute_bonus
                              ELSE 0
              Score(sim) == CombinedScore(sim, attribute_match, keyword_overlap,
                                          gating_bonus)
          IN /\ pipeline.ranked[i].final_score = Score(pipeline.semantic_scores[c])
             /\ \A lo, hi \in Similarities :
                   lo <= hi => ~Above(Score(lo), Score(hi))

\* C23 witness: a candidate with metadata whose attributes match the query
\* has been scored.
C23_Witness ==
    /\ pipeline.stage = "ranked"
    /\ \E i \in 1..Len(pipeline.ranked) :
          /\ pipeline.ranked[i].item_id \in DOMAIN pipeline.gating_results
          /\ pipeline.gating_results[pipeline.ranked[i].item_id].attribute_bonus > 0

\* C24: rerank_items returns every candidate it was given exactly once, in
\* descending order of final_score, and two candidates with the same
\* final_score in the order candidate_item_ids had them.
C24_RerankSortsStably ==
    pipeline.stage = "ranked"
    => LET ranked == pipeline.ranked
           given == pipeline.passed_items
           Position(c) == CHOOSE i \in 1..Len(given) : given[i] = c
       IN /\ Len(ranked) = Len(given)
          /\ {ranked[i].item_id : i \in 1..Len(ranked)} = Elements(given)
          /\ \A i, j \in 1..Len(ranked) :
                i < j
                => /\ ~Above(ranked[j].final_score, ranked[i].final_score)
                   /\ ~Above(ranked[i].final_score, ranked[j].final_score)
                         => Position(ranked[i].item_id) < Position(ranked[j].item_id)

\* C24 witness: two candidates with the same final score were ranked, item 2
\* given first.
C24_Witness ==
    /\ pipeline.stage = "ranked"
    /\ pipeline.passed_items = <<2, 1>>
    /\ ~Above(pipeline.ranked[1].final_score, pipeline.ranked[2].final_score)

\* C25: the final_score of every ranked candidate is
\* 0.5 * semantic_norm + 0.3 * min(attribute_match + 0.2 * gating_bonus_norm, 1)
\* + 0.2 * keyword_overlap, where semantic_norm maps the raw similarity
\* linearly from [0.3, 0.95] to [0, 1] and clamps it, and gating_bonus_norm is
\* the gating bonus over 60, capped at 1.  With the similarity s in tenths,
\* the attribute match a in tenths, the bonus g and the overlap n / d, that
\* is (500 * S * d + 13 * A * d + 2600 * n) / (13000 * d), where
\* S = clamp(2 * s - 6, 0, 13) and A = min(30 * a + min(g, 60), 300).
C25_FinalScoreIsTheWeightedSum ==
    pipeline.stage = "ranked"
    => \A i \in 1..Len(pipeline.ranked) :
          LET c == pipeline.ranked[i].item_id
              known == c \in DOMAIN item_metadata
              s == IF c \in DOMAIN pipeline.semantic_scores
                   THEN pipeline.semantic_scores[c] ELSE 0
              a == IF known
                   THEN calculate_attribute_match_score(
                           pipeline.query_attrs.attributes,
                           ItemAttributes(item_metadata[c]))
                   ELSE 0
              k == IF known
                   THEN calculate_keyword_overlap(pipeline.query_attrs.keywords,
                                                  ItemText(item_metadata[c]))
                   ELSE [num |-> 0, den |-> 1]
              g == IF c \in DOMAIN pipeline.gating_results
                   THEN pipeline.gating_results[c].attribute_bonus ELSE 0
              S == Min(Max(2 * s - 6, 0), 13)
              A == Min(30 * a + Min(g, 60), 300)
          IN pipeline.ranked[i].final_score.num * k.den
                = (500 * S * k.den + 13 * A * k.den + 2600 * k.num)
                     * pipeline.ranked[i].final_score.den

\* C25 witness: a ranked candidate matches the query in color, pattern and
\* brand, so that the attribute term is capped at 1.
C25_Witness ==
    /\ pipeline.stage = "ranked"
    /\ \E i \in 1..Len(pipeline.ranked) :
          LET c == pipeline.ranked[i].item_id
          IN /\ c \in DOMAIN pipeline.gating_results
             /\ pipeline.gating_results[c].attribute_bonus = 60

\* C26 (as stated): a delete that succeeds returns as deleted_count the
\* number of ordinals that mapped to the id, each duplicate counted, and all
\* of them are gone from the mapping, whatever the kind of the index.
C26_DeletedCountIsOrdinalsRemoved ==
    [][\A p \in workers :
          Returns(p) /\ req[p].name = "delete" /\ resp'[p].status = 200
             => /\ resp'[p].deleted_count
                      = Cardinality(req[p].faiss_indices_to_delete)
                /\ IndicesOf(id_mapping'[p], req[p].item_id) = {}]_vars

\* C27: a delete of an id that the mapping does not hold answers success with
\* deleted_count 0 straight from the lookup, and from its start to its return
\* the index, the mapping, the pending-save counter and the files are left as
\* they were (save_faiss() is not called).
C27_DeleteOfUnknownIdIsNoOp ==
    [][\A p \in workers :
          /\ (pc[p] = "idle" /\ pc'[p] = "delete_cs")
                => UNCHANGED <<faiss_index, id_mapping, pending_save_count, disk>>
          /\ (/\ pc[p] = "delete_cs" /\ pc'[p] # "delete_cs"
              /\ req[p].item_id \notin Values(id_mapping[p]))
                => (/\ pc'[p] = "idle"
                    /\ resp'[p].op = "delete" /\ resp'[p].status = 200
                    /\ resp'[p].deleted_count = 0
                    /\ UNCHANGED <<faiss_index, id_mapping, pending_save_count,
                                   disk>>)]_vars

\* C27 witness: a delete of an unknown id has answered while the index holds
\* a vector of another item and the counter is not 0.
C27_Witness ==
    /\ pc[1] = "idle"
    /\ resp[1].op = "delete" /\ resp[1].status = 200 /\ resp[1].deleted_count = 0
    /\ resp[1].item_id \notin Values(id_mapping[1])
    /\ id_mapping[1] # {}
    /\ pending_save_count[1] > 0

\* C28: when sync_faiss_with_db(S) returns success, every id left in
\* id_mapping is in S, no entry whose id is in S was removed, and the returned
\* orphaned_items are the ids mapped before the call that are not in S; with no
\* orphan the mapping is left as it was.
C28_SyncRemovesExactlyTheOrphans ==
    [][\A p \in workers :
          /\ (Returns(p) /\ req[p].name = "sync" /\ resp'[p].status = 200)
                => (/\ Values(id_mapping'[p]) \subseteq req[p].db_item_ids
                    /\ \A e \in req[p].before.mapping :
                          e[2] \in req[p].db_item_ids => e \in id_mapping'[p]
                    /\ id_mapping'[p] \subseteq req[p].before.mapping
                    /\ resp'[p].orphaned_items
                          = Values(req[p].before.mapping) \ req[p].db_item_ids)
          /\ (pc[p] = "idle" /\ pc'[p] = "idle" /\ resp'[p].op = "sync")
                => (/\ resp'[p].status = 200
                    /\ id_mapping'[p] = id_mapping[p]
                    /\ Values(id_mapping'[p]) \subseteq resp'[p].db_item_ids
                    /\ resp'[p].orphaned_items = {})]_vars

\* C28 witness: a sync that removed one item and kept another has returned.
C28_Witness ==
    /\ pc[1] = "idle"
    /\ resp[1].op = "sync" /\ resp[1].status = 200
    /\ resp[1].orphaned_items # {}
    /\ resp[1].db_item_ids # {}
    /\ id_mapping[1] # {}
    /\ Values(id_mapping[1]) \subseteq resp[1].db_item_ids

\* The index, the mapping, the pending counter and the snapshot files stay as
\* they are.
StoreUnchanged == UNCHANGED <<faiss_index, id_mapping, pending_save_count, disk>>

\* C29: a search whose query is missing or blank is answered 400, on an empty
\* index as on any other, and a registration whose fields yield no text is
\* answered 400 and never reaches the index; both leave the index, the
\* mapping, the pending counter and the snapshot files unchanged.
C29_BlankRequestsAreRejected ==
    [][\A p \in workers :
          /\ (pc[p] = "idle" /\ pc'[p] = "idle" /\ resp'[p].op = "search"
                 /\ strip(resp'[p].query) = <<>>)
                => (resp'[p].status = 400 /\ StoreUnchanged)
          /\ (pc[p] = "idle" /\ pc'[p] = "idle" /\ resp'[p].op = "create"
                 /\ resp'[p].note = "description required")
                => (resp'[p].status = 400 /\ StoreUnchanged)
          /\ (pc[p] = "idle" /\ pc'[p] = "add_cs")
                => (/\ req'[p].parts # <<>>
                    /\ \A i \in 1..Len(req'[p].parts) : req'[p].parts[i] # <<>>)]_vars

\* C29 witness: a blank query was answered 400 by a worker whose index holds
\* a vector that is not yet saved.
C29_Witness ==
    /\ pc[1] = "idle"
    /\ resp[1].op = "search" /\ resp[1].status = 400
    /\ resp[1].query = <<" ">>
    /\ ntotal(faiss_index[1]) > 0
    /\ pending_save_count[1] > 0

\* C30 (as stated): within one process every read of faiss_index or
\* id_mapping by a search happens while no registration is inside its
\* critical section.
C30_SearchExcludedFromCriticalSection ==
    [][\A p \in workers :
          search_thread'[p] # search_thread[p] => faiss_lock[p] = 0]_vars

\* 1 for a true condition, 0 for a false one.
Indicator(b) == IF b THEN 1 ELSE 0

\* C35: for the attributes of the query and of every item with metadata,
\* calculate_attribute_match_score is 0.4 for intersecting colors plus 0.3 for
\* intersecting patterns plus 0.3 for intersecting brands (in tenths: 4, 3,
\* 3), lies within [0, 1], is 0 against a side without attributes, and is the
\* same with query and item swapped.
C35_MatchScoreIsTheWeightedIntersections ==
    Understood
    => \A c \in DOMAIN item_metadata :
          LET query_attrs == pipeline.query_attrs.attributes
              item_attrs == ItemAttributes(item_metadata[c])
              Shares(kind) == Elements(query_attrs[kind])
                                 \cap Elements(item_attrs[kind]) # {}
              score == calculate_attribute_match_score(query_attrs, item_attrs)
          IN /\ score = 4 * Indicator(Shares("color"))
                          + 3 * Indicator(Shares("pattern"))
                          + 3 * Indicator(Shares("brand"))
             /\ score \in 0..10
             /\ score = calculate_attribute_match_score(item_attrs, query_attrs)
             /\ calculate_attribute_match_score(query_attrs, NoAttributes) = 0
             /\ calculate_attribute_match_score(NoAttributes, item_attrs) = 0

\* C35 witness: a query and an item that share color, pattern and brand
\* (score 1.0), next to an item that shares none of them with the query.
C35_Witness ==
    /\ Understood
    /\ \E c \in DOMAIN item_metadata :
          calculate_attribute_match_score(pipeline.query_attrs.attributes,
                                          ItemAttributes(item_metadata[c])) = 10
    /\ \E c \in DOMAIN item_metadata :
          /\ ItemAttributes(item_metadata[c]).color # <<>>
          /\ calculate_attribute_match_score(pipeline.query_attrs.attributes,
                                             ItemAttributes(item_metadata[c])) = 0

\* What one attribute kind can add to (penalty_score, attribute_bonus): a
\* penalty or a bonus or nothing for color and pattern, a bonus or nothing
\* for brand.
AttributeShares ==
    [color |-> {<<COLOR_CONFLICT_PENALTY, 0>>, <<0, COLOR_MATCH_BONUS>>, <<0, 0>>},
     pattern |-> {<<PATTERN_CONFLICT_PENALTY, 0>>, <<0, PATTERN_MATCH_BONUS>>, <<0, 0>>},
     brand |-> {<<0, BRAND_MATCH_BONUS>>, <<0, 0>>}]

C32_EverySearchOversamples ==
    search_call.stage = "searched"
    => /\ search_call.k
             = Min(Max(3 * search_call.top_k, search_call.top_k + 50),
                   search_call.ntotal)
       /\ index_type = "HNSW"
             => search_call.efSearch = Max(HNSW_EF_SEARCH, 2 * search_call.k)

BackupPair(d) == <<d.idx_backup, NoMappingFile>>

\* C34 (as stated): when save_faiss() has replaced an existing snapshot, the
\* backup holds the index file and the mapping file of the snapshot it
\* replaced.
C34_BackupIsThePreviousSnapshot ==
    [][\A p \in workers :
          (/\ Returns(p) /\ pc[p] = "save_verify" /\ resp'[p].status = 200
           /\ snap.valid /\ Exists(snap.prev[1]) /\ Exists(snap.prev[2]))
          => (BackupPair(disk') = snap.prev)]_vars

\* The positions at which a process holds the file lock: the load of
\* initialize_faiss, the add step of a registration, save_faiss.
LockedPcs == {"init_locked", "add_cs", "add_mapping"} \cup SavePcs

\* C38: a process holds .faiss_lock only inside initialize_faiss, inside the
\* add step of create_embedding / create_embeddings_batch, or inside
\* save_faiss; once any of them has returned or raised the lock is free.
C38_FileLockIsReleasedOnEveryExit ==
    \A p \in Procs : (flock = p) => (pc[p] \in LockedPcs)

\* C38 witness: create_embedding has answered 500 because int(item_id) raised
\* inside the locked block, after the vector was added, and the lock is free.
C38_Witness ==
    /\ pc[1] = "idle" /\ resp[1].op = "create" /\ resp[1].status = 500
    /\ ntotal(faiss_index[1]) = 1 /\ id_mapping[1] = {}
    /\ flock = 0

\* C39: the lock operations of register, batch register, delete, sync and
\* persist never leave every busy thread waiting; a thread that holds both
\* locks took .faiss_lock first, and no thread waits for .faiss_lock while it
\* holds _faiss_lock.
C39_LocksAreOrderedAndNeverDeadlock ==
    /\ (\E t \in LockThreads : locking.rest[t] # <<>>)
          => (\E t \in LockThreads : CanStep(t))
    /\ \A t \in LockThreads :
          /\ (Len(locking.held[t]) = 2) => (locking.held[t] = <<"file", "mem">>)
          /\ (locking.rest[t] # <<>> /\ Head(locking.rest[t]) = <<"acquire", "file">>)
                => (locking.held[t] = <<>>)

\* C39 witness: a thread of process 1 waits for _faiss_lock with .faiss_lock
\* in hand while another thread of process 1 holds _faiss_lock in a delete,
\* and the thread of process 2 waits for .faiss_lock.
C39_Witness ==
    /\ locking.held[<<1, 1>>] = <<"file">>
    /\ locking.rest[<<1, 1>>] # <<>> /\ Head(locking.rest[<<1, 1>>]) = <<"acquire", "mem">>
    /\ locking.op[<<1, 2>>] = "delete" /\ locking.held[<<1, 2>>] = <<"mem">>
    /\ locking.rest[<<2, 1>>] # <<>> /\ Head(locking.rest[<<2, 1>>]) = <<"acquire", "file">>

\* The entries of the cache as (key, time of insertion).
Born(cache) == {<<cache.entries[i].key, cache.entries[i].born>> : i \in 1..Len(cache.entries)}

C37_BatchResultIsPositional ==
    \A t \in EmbedThreads :
       (embed_call[t].op = "batch" /\ embed_call[t].stage = "returned")
       => (/\ Len(embed_call[t].result) = Len(embed_call[t].texts)
           /\ \A i \in 1..Len(embed_call[t].texts) :
                 embed_call[t].result[i].of =
                    IF IsBlankText(embed_call[t].texts[i]) THEN None.of
                    ELSE embed_call[t].texts[i])

\* The item is in the snapshot on disk and in the memory of worker p.
PersistedBy(p, item) ==
    /\ item \in Values(id_mapping[p])
    /\ Exists(disk.idx) /\ Exists(disk.map)
    /\ item \in Values(PickleLoad(disk.map))

\* C31 (as stated): once worker 1 has registered and persisted an item while
\* worker 2 is up, some later search served by worker 2 returns the item.
C31_PersistedItemsBecomeVisible ==
    \A item \in 1..MaxItemId :
       (PersistedBy(1, item) /\ Initialized(2))
          ~> (/\ resp[2].op = "search" /\ resp[2].status = 200
              /\ item \in Elements(resp[2].item_ids))

=============================================================================
